---------------------------- MODULE Spec2Model ----------------------------
(***************************************************************************)
(* A model of the ChimariData python scripts.                              *)
(*                                                                         *)
(*   SpecCli     one run of a command-line script: its arguments and the   *)
(*               conditions of its run are the inputs, the exit status and *)
(*               the JSON document it emits are the result.                *)
(*   SpecXform   PandasTransformationEngine.apply_transformations, one     *)
(*               loop iteration per step.                                  *)
(*   SpecStep    one transformation handler applied to one dataframe.      *)
(*   SpecAsk     DataAnalyzer.analyze_question on one loaded dataset.      *)
(*   SpecAnalysis  main of data_analyzer.py, from its input files to its   *)
(*               output file.                                              *)
(*   SpecUploads   concurrent upload_project requests, each suspended at   *)
(*               its file read.                                            *)
(*   SpecServer  the demo HTTP server and its in-memory dictionaries.      *)
(***************************************************************************)
EXTENDS Integers, Sequences, FiniteSets, TLC

VARIABLES
    run,            \* SpecCli: the last script run (script, inputs, exit, doc)
    xf,             \* SpecXform: the state of one apply_transformations call
    handled,        \* SpecStep: one transformation applied to one dataframe
    asked,          \* SpecAsk: one question put to DataAnalyzer
    da,             \* SpecAnalysis: one run of data_analyzer.py's main
    projects_db,    \* SpecServer: project id -> project
    users_db,       \* SpecServer: user name -> user record
    tokens_db,      \* SpecServer: token -> user record
    inflight,       \* SpecServer: upload_project calls suspended at file.read()
    resp            \* SpecServer: the response to the last completed request

cliVars == <<run>>
xfVars == <<xf, handled, asked, da>>
srvVars == <<projects_db, users_db, tokens_db, inflight, resp>>
vars == <<run, xf, handled, asked, da, projects_db, users_db, tokens_db, inflight, resp>>

(***************************************************************************)
(*                        THE COMMAND-LINE SCRIPTS                         *)
(***************************************************************************)

\* The conditions of one run.  Each is decided by the environment: the
\* command line, the files, the configuration and the wrapped library.
\*   argcOK   the number of command-line arguments is the expected one
\*   filesOK  the input and config files open and parse
\*   keysOK   the configuration (or input) holds the keys the script indexes
\*   usable   the data holds what the analysis needs (numeric columns, ...)
\*   libOK    the wrapped library call does not raise
\*   kind     the method / analysis type / chart format that is selected
Conditions(kinds) ==
    [argcOK : BOOLEAN, filesOK : BOOLEAN, keysOK : BOOLEAN,
     usable : BOOLEAN, libOK : BOOLEAN, kind : kinds]

\* A JSON document as far as the error contract sees it.
\*   error    it has a top-level "error" key
\*   success  the value of its top-level "success" key, if any
\*   nested   an error message sits below the top level
\*   payload  "result": computed results, "default": empty/default result
\*            fields, "none": no result field or a null one
Doc(error, success, nested, payload) ==
    [written |-> TRUE, error |-> error, success |-> success,
     nested |-> nested, payload |-> payload]

NoDoc ==
    [written |-> FALSE, error |-> FALSE, success |-> "absent",
     nested |-> FALSE, payload |-> "none"]

\* What an analysis function hands back to main: the document and whether
\* the analysis could not be computed.
Returned(doc, failed) == [doc |-> doc, failed |-> failed]

\* What a process leaves behind.  failedIn is where the run failed:
\* "none", "usage" (bad command line), "main" (caught by main's handler),
\* "inner" (caught inside the analysis function main calls).
Exited(exit, doc, failedIn) == [exit |-> exit, doc |-> doc, failedIn |-> failedIn]

InnerOr(r) == IF r.failed THEN "inner" ELSE "none"

-----------------------------------------------------------------------------
\* python_scripts/data_analyzer.py

AnalysisTypes == {"anova", "ancova", "regression", "machine_learning", "comprehensive"}

\* run_anova / run_regression / run_ml_analysis: the whole body is in a try
\* whose handler returns {'error': ...}.
run_anova(c) ==
    IF ~c.keysOK \/ ~c.libOK
    THEN Returned(Doc(TRUE, "absent", FALSE, "none"), TRUE)
    ELSE Returned(Doc(FALSE, "absent", FALSE, "result"), FALSE)

run_regression(c) ==
    IF ~c.keysOK \/ ~c.usable \/ ~c.libOK
    THEN Returned(Doc(TRUE, "absent", FALSE, "none"), TRUE)
    ELSE Returned(Doc(FALSE, "absent", FALSE, "result"), FALSE)

run_ml_analysis(c) ==
    IF ~c.keysOK \/ ~c.usable \/ ~c.libOK
    THEN Returned(Doc(TRUE, "absent", FALSE, "none"), TRUE)
    ELSE Returned(Doc(FALSE, "absent", FALSE, "result"), FALSE)

\* The analysis main selects from config.analysisType.
SelectAnalysis(c) ==
    CASE c.kind = "anova" -> run_anova(c)
      [] c.kind = "ancova" -> run_anova(c)
      [] c.kind = "regression" -> run_regression(c)
      [] c.kind = "machine_learning" -> run_ml_analysis(c)
      [] OTHER -> Returned(Doc(FALSE, "absent", FALSE, "result"), FALSE)

\* main wraps the selected analysis' return value as the "data" of a
\* document with success = True, whatever that value is.
WrapAsData(r) ==
    Doc(FALSE, "true", r.doc.error, IF r.failed THEN "none" ELSE "result")

data_analyzer_main(c) ==
    IF ~c.argcOK THEN Exited(1, NoDoc, "usage")
    ELSE IF ~c.filesOK \/ (c.kind = "comprehensive" /\ ~c.libOK)
         \* open/json.load, the missing projectId, load_project_data and
         \* df.describe() raise into main's handler
         THEN Exited(1, Doc(TRUE, "false", FALSE, "none"), "main")
    ELSE LET r == SelectAnalysis(c)
         IN  Exited(0, WrapAsData(r), InnerOr(r))

-----------------------------------------------------------------------------
\* python_scripts/outlier_detector.py

OutlierMethods == {"zscore", "iqr", "isolation_forest"}

perform_outlier_detection(c) ==
    IF ~c.keysOK                         \* config['columns'] / ['method']
         \/ ~c.usable                    \* no numeric columns
         \/ c.kind \notin OutlierMethods \* unknown method
         \/ ~c.libOK
    THEN Returned(Doc(TRUE, "absent", FALSE, "default"), TRUE)
    ELSE Returned(Doc(FALSE, "absent", FALSE, "result"), FALSE)

outlier_detector_main(c) ==
    IF ~c.argcOK THEN Exited(1, NoDoc, "usage")
    ELSE IF ~c.filesOK
         THEN Exited(1, Doc(TRUE, "absent", FALSE, "default"), "main")
    ELSE LET r == perform_outlier_detection(c)
         IN  Exited(0, r.doc, InnerOr(r))

-----------------------------------------------------------------------------
\* python_scripts/normality_tester.py

\* A column that is empty or not numeric gets an 'error' entry of its own
\* under tests[column]; the run itself completes.
perform_normality_testing(c) ==
    IF ~c.keysOK \/ ~c.libOK
    THEN Returned(Doc(TRUE, "absent", FALSE, "default"), TRUE)
    ELSE Returned(Doc(FALSE, "absent", ~c.usable, "result"), FALSE)

normality_tester_main(c) ==
    IF ~c.argcOK THEN Exited(1, NoDoc, "usage")
    ELSE IF ~c.filesOK
         THEN Exited(1, Doc(TRUE, "absent", FALSE, "default"), "main")
    ELSE LET r == perform_normality_testing(c)
         IN  Exited(0, r.doc, InnerOr(r))

-----------------------------------------------------------------------------
\* python_scripts/missing_data_analyzer.py

perform_missing_data_analysis(c) ==
    IF ~c.usable \/ ~c.libOK
    THEN Returned(Doc(TRUE, "absent", FALSE, "default"), TRUE)
    ELSE Returned(Doc(FALSE, "absent", FALSE, "result"), FALSE)

missing_data_analyzer_main(c) ==
    IF ~c.argcOK THEN Exited(1, NoDoc, "usage")
    ELSE IF ~c.filesOK
         THEN Exited(1, Doc(TRUE, "absent", FALSE, "default"), "main")
    ELSE LET r == perform_missing_data_analysis(c)
         IN  Exited(0, r.doc, InnerOr(r))

-----------------------------------------------------------------------------
\* python_scripts/advanced_anova.py

\* The error return has 'error', 'analysis_type' and 'success': False, and
\* no result field.
perform_anova_analysis(c) ==
    IF ~c.keysOK \/ ~c.usable \/ ~c.libOK
    THEN Returned(Doc(TRUE, "false", FALSE, "none"), TRUE)
    ELSE Returned(Doc(FALSE, "absent", FALSE, "result"), FALSE)

advanced_anova_main(c) ==
    IF ~c.argcOK THEN Exited(1, NoDoc, "usage")
    ELSE IF ~c.filesOK      \* open/json.load, input_data['data'], ['config']
         THEN Exited(1, Doc(TRUE, "false", FALSE, "none"), "main")
    ELSE LET r == perform_anova_analysis(c)
         IN  Exited(0, r.doc, InnerOr(r))

-----------------------------------------------------------------------------
\* python_scripts/trial_analyzer.py

\* The whole body, file loading included, is in analyze_trial_data's try;
\* its handler saves {'data': {'error': ...}, 'visualizations': []} and
\* returns.  A chart that cannot be drawn is replaced by an error image
\* (create_visualization) and the run goes on.
analyze_trial_data(c) ==
    IF ~c.filesOK \/ ~c.keysOK \/ ~c.libOK
    THEN Returned(Doc(FALSE, "absent", TRUE, "default"), TRUE)
    ELSE Returned(Doc(FALSE, "absent", FALSE, "result"), FALSE)

trial_analyzer_main(c) ==
    IF ~c.argcOK THEN Exited(1, NoDoc, "usage")
    ELSE LET r == analyze_trial_data(c)
         IN  Exited(0, r.doc, InnerOr(r))

-----------------------------------------------------------------------------
\* server/ml-analysis.py

MLKinds == {"regression", "classification", "clustering", "anomaly"}

\* MLAnalyzer.run_analysis raises; nothing inside it catches.
MLAnalyzer_run_analysis(c) ==
    IF ~c.filesOK \/ c.kind \notin MLKinds \/ ~c.usable \/ ~c.libOK
    THEN Returned(NoDoc, TRUE)
    ELSE Returned(Doc(FALSE, "absent", FALSE, "result"), FALSE)

\* argparse ends the process with status 2 on a bad command line.  main's
\* handler prints the error document and returns: no sys.exit.
ml_analysis_main(c) ==
    IF ~c.argcOK THEN Exited(2, NoDoc, "usage")
    ELSE LET r == MLAnalyzer_run_analysis(c)
         IN  IF ~c.keysOK \/ r.failed        \* json.loads(args.parameters)
             THEN Exited(0, Doc(TRUE, "absent", FALSE, "default"), "main")
             ELSE Exited(0, r.doc, "none")

-----------------------------------------------------------------------------
\* python_scripts/visualization_generator.py

VizFormats == {"chartConfig", "legacy"}

\* config['data'] and config['output_path'] are read before the try; the
\* handler returns results with success = False and the message appended
\* to results['insights'].
create_advanced_visualization(c) ==
    IF ~c.usable \/ ~c.libOK
    THEN Returned(Doc(FALSE, "false", TRUE, "default"), TRUE)
    ELSE Returned(Doc(FALSE, "true", FALSE, "result"), FALSE)

\* The legacy entry returns create_advanced_visualization's dictionary.
create_visualization(c) == create_advanced_visualization(c)

visualization_generator_main(c) ==
    IF ~c.argcOK THEN Exited(1, NoDoc, "usage")
    ELSE IF ~c.filesOK \/ ~c.keysOK
         THEN Exited(1, Doc(FALSE, "false", TRUE, "default"), "main")
    ELSE IF c.kind = "chartConfig"
         THEN LET r == create_advanced_visualization(c)
              IN  Exited(IF r.doc.success = "true" THEN 0 ELSE 1, r.doc, InnerOr(r))
         ELSE LET r == create_visualization(c)
              \* sys.exit(0 if success else 1) on a non-empty dictionary;
              \* nothing is printed
              IN  Exited(0, NoDoc, InnerOr(r))

-----------------------------------------------------------------------------
\* attached_assets/pandas-analyzer_1757721245016.py

pandas_analyzer_main(c) ==
    IF ~c.argcOK THEN Exited(1, NoDoc, "usage")
    ELSE IF ~c.filesOK \/ ~c.libOK
         THEN Exited(1, Doc(TRUE, "absent", FALSE, "none"), "main")
    ELSE Exited(0, Doc(FALSE, "absent", FALSE, "result"), "none")

-----------------------------------------------------------------------------
\* attached_assets/pandas-transformation-service_1757721201655.py and
\* server/visualization-service.py: the function called from __main__
\* returns a JSON string in every case and the script prints it.

transform_data_from_json(c) ==
    IF ~c.filesOK                     \* json.loads of an argument
    THEN Returned(Doc(TRUE, "false", FALSE, "default"), TRUE)
    ELSE IF ~c.libOK                  \* apply_transformations' handler:
                                      \* the original data, transformed_count 0
    THEN Returned(Doc(TRUE, "false", FALSE, "default"), TRUE)
    ELSE Returned(Doc(FALSE, "true", FALSE, "result"), FALSE)

transformation_service_main(c) ==
    IF ~c.argcOK THEN Exited(0, NoDoc, "usage")
    ELSE LET r == transform_data_from_json(c)
         IN  Exited(0, r.doc, InnerOr(r))

create_visualization_from_json(c) ==
    IF ~c.filesOK \/ ~c.keysOK \/ ~c.libOK
    THEN Returned(Doc(TRUE, "false", FALSE, "none"), TRUE)
    ELSE Returned(Doc(FALSE, "true", FALSE, "result"), FALSE)

visualization_service_main(c) ==
    IF ~c.argcOK THEN Exited(0, NoDoc, "usage")
    ELSE LET r == create_visualization_from_json(c)
         IN  Exited(0, r.doc, InnerOr(r))

-----------------------------------------------------------------------------
\* One action per script: the process runs from its command line to its
\* exit.

Ran(script, c, e) ==
    run' = [script |-> script, cond |-> c, exit |-> e.exit,
            doc |-> e.doc, failedIn |-> e.failedIn]

RunDataAnalyzer ==
    /\ \E c \in Conditions(AnalysisTypes) :
          Ran("data_analyzer", c, data_analyzer_main(c))
    /\ UNCHANGED <<xfVars, srvVars>>

RunOutlierDetector ==
    /\ \E c \in Conditions(OutlierMethods \cup {"other"}) :
          Ran("outlier_detector", c, outlier_detector_main(c))
    /\ UNCHANGED <<xfVars, srvVars>>

RunNormalityTester ==
    /\ \E c \in Conditions({"tests"}) :
          Ran("normality_tester", c, normality_tester_main(c))
    /\ UNCHANGED <<xfVars, srvVars>>

RunMissingDataAnalyzer ==
    /\ \E c \in Conditions({"mean", "mode"}) :
          Ran("missing_data_analyzer", c, missing_data_analyzer_main(c))
    /\ UNCHANGED <<xfVars, srvVars>>

RunAdvancedAnova ==
    /\ \E c \in Conditions({"anova"}) :
          Ran("advanced_anova", c, advanced_anova_main(c))
    /\ UNCHANGED <<xfVars, srvVars>>

RunTrialAnalyzer ==
    /\ \E c \in Conditions({"trial"}) :
          Ran("trial_analyzer", c, trial_analyzer_main(c))
    /\ UNCHANGED <<xfVars, srvVars>>

RunMlAnalysis ==
    /\ \E c \in Conditions(MLKinds \cup {"other"}) :
          Ran("ml_analysis", c, ml_analysis_main(c))
    /\ UNCHANGED <<xfVars, srvVars>>

RunVisualizationGenerator ==
    /\ \E c \in Conditions(VizFormats) :
          Ran("visualization_generator", c, visualization_generator_main(c))
    /\ UNCHANGED <<xfVars, srvVars>>

RunPandasAnalyzer ==
    /\ \E c \in Conditions({"question"}) :
          Ran("pandas_analyzer", c, pandas_analyzer_main(c))
    /\ UNCHANGED <<xfVars, srvVars>>

RunTransformationService ==
    /\ \E c \in Conditions({"transform"}) :
          Ran("transformation_service", c, transformation_service_main(c))
    /\ UNCHANGED <<xfVars, srvVars>>

RunVisualizationService ==
    /\ \E c \in Conditions({"chart"}) :
          Ran("visualization_service", c, visualization_service_main(c))
    /\ UNCHANGED <<xfVars, srvVars>>

NotRun ==
    [script |-> "none",
     cond |-> [argcOK |-> TRUE, filesOK |-> TRUE, keysOK |-> TRUE,
               usable |-> TRUE, libOK |-> TRUE, kind |-> "none"],
     exit |-> 0, doc |-> NoDoc, failedIn |-> "none"]

XfIdle == [pc |-> "idle"]

NotHandled == [pc |-> "idle"]

NotAsked == [pc |-> "idle"]

NotStarted == [pc |-> "idle"]

NoResponse == [status |-> 0]

InitCli ==
    /\ run = NotRun
    /\ xf = XfIdle
    /\ handled = NotHandled
    /\ asked = NotAsked
    /\ da = NotStarted
    /\ projects_db = <<>>
    /\ users_db = <<>>
    /\ tokens_db = <<>>
    /\ inflight = {}
    /\ resp = NoResponse

NextCli ==
    \/ RunDataAnalyzer
    \/ RunOutlierDetector
    \/ RunNormalityTester
    \/ RunMissingDataAnalyzer
    \/ RunAdvancedAnova
    \/ RunTrialAnalyzer
    \/ RunMlAnalysis
    \/ RunVisualizationGenerator
    \/ RunPandasAnalyzer
    \/ RunTransformationService
    \/ RunVisualizationService

SpecCli == InitCli /\ [][NextCli]_vars

-----------------------------------------------------------------------------
\* The error contract of the scripts (spec sections 6 and 7).

HasRun == run.script # "none"

\* C1: every script ends with exit code 0 exactly when its analysis
\* succeeded and with exit code 1 when it failed, also when the failure was
\* caught inside the analysis function main calls.
C1_ExitCodeTellsSuccess ==
    HasRun => IF run.failedIn = "none" THEN run.exit = 0 ELSE run.exit = 1

\* C2: whenever a run fails, the emitted JSON document has a top-level
\* "error" string together with empty/default result fields: never a
\* success payload, never the error only in a nested field.
C2_FailedRunEmitsErrorDocument ==
    (HasRun /\ run.failedIn \in {"main", "inner"}) =>
        /\ run.doc.written
        /\ run.doc.error
        /\ run.doc.success # "true"
        /\ run.doc.payload # "result"

\* C3: in every output file of data_analyzer.py, success is true if and
\* only if data holds a computed result without an 'error' key, and an
\* analysis that could not be computed gives success = false and a
\* non-zero exit status.
C3_DataAnalyzerSuccessMeansResult ==
    (run.script = "data_analyzer" /\ run.doc.written) =>
        /\ (run.doc.success = "true") <=>
               (run.doc.payload = "result" /\ ~run.doc.nested)
        /\ (run.failedIn # "none") =>
               (run.doc.success = "false" /\ run.exit # 0)

(***************************************************************************)
(*                       THE TRANSFORMATION ENGINE                         *)
(*     attached_assets/pandas-transformation-service_1757721201655.py      *)
(***************************************************************************)

\* ---- Values.  A cell, or a configured value, is one of
\*   null  NaN / None / NaT
\*   num   the number n/d, in lowest terms (d = 1 for an integer)
\*   str   a string, as the sequence of its characters
\*   bool  True (n = 1) or False (n = 0)
\*   date  a timestamp, n nanoseconds after the epoch
Null == [t |-> "null", n |-> 0, d |-> 1, s |-> <<>>]
Num(n) == [t |-> "num", n |-> n, d |-> 1, s |-> <<>>]
Str(s) == [t |-> "str", n |-> 0, d |-> 1, s |-> s]
Bool(b) == [t |-> "bool", n |-> IF b THEN 1 ELSE 0, d |-> 1, s |-> <<>>]
Date(n) == [t |-> "date", n |-> n, d |-> 1, s |-> <<>>]

RECURSIVE Gcd(_, _)
Gcd(a, b) == IF b = 0 THEN a ELSE Gcd(b, a % b)

\* The number n/d (n >= 0, d > 0) in lowest terms.
Frac(n, d) ==
    LET g == Gcd(n, d)
    IN  [t |-> "num", n |-> n \div g, d |-> d \div g, s |-> <<>>]

IsNull(v) == v.t = "null"
IsNumber(v) == v.t \in {"num", "bool"}

\* Python's truth value: None, 0, False and '' are false.
Truthy(v) ==
    CASE v.t = "null" -> FALSE
      [] v.t = "num" -> v.n # 0
      [] v.t = "bool" -> v.n # 0
      [] v.t = "str" -> v.s # <<>>
      [] OTHER -> TRUE

\* x == v, elementwise as pandas compares a column with a scalar: NaN
\* equals nothing, True equals 1, a number never equals a string.
PyEq(x, v) ==
    CASE IsNull(x) \/ IsNull(v) -> FALSE
      [] IsNumber(x) /\ IsNumber(v) -> x.n * v.d = v.n * x.d
      [] x.t = "str" /\ v.t = "str" -> x.s = v.s
      [] x.t = "date" /\ v.t = "date" -> x.n = v.n
      [] OTHER -> FALSE

\* x < v for two numbers, two strings or two timestamps.
Digits == <<"0", "1", "2", "3", "4", "5", "6", "7", "8", "9">>
Alphabet ==
    <<" ", ".", "/">> \o Digits \o
    <<"F", "N", "T", "a", "b", "c", "e", "l", "n", "r", "s", "u", "x", "y", "z">>

CharRank(ch) == CHOOSE i \in 1..Len(Alphabet) : Alphabet[i] = ch

RECURSIVE StrLess(_, _)
StrLess(a, b) ==
    IF b = <<>> THEN FALSE
    ELSE IF a = <<>> THEN TRUE
    ELSE IF Head(a) = Head(b) THEN StrLess(Tail(a), Tail(b))
    ELSE CharRank(Head(a)) < CharRank(Head(b))

PyLess(x, v) ==
    CASE IsNumber(x) /\ IsNumber(v) -> x.n * v.d < v.n * x.d
      [] x.t = "str" /\ v.t = "str" -> StrLess(x.s, v.s)
      [] x.t = "date" /\ v.t = "date" -> x.n < v.n
      [] OTHER -> FALSE

\* ---- Strings.

RECURSIVE IntStr(_)
IntStr(n) ==
    IF n < 10 THEN <<Digits[n + 1]>>
    ELSE IntStr(n \div 10) \o <<Digits[(n % 10) + 1]>>

NanStr == <<"n", "a", "n">>

\* repr of a float that holds n/d.  A fraction is written n/d here: no
\* step of the model's inputs renders one.
FloatStr(v) ==
    IF v.d = 1 THEN IntStr(v.n) \o <<".", "0">>
    ELSE IntStr(v.n) \o <<"/">> \o IntStr(v.d)

\* The timestamp of every n below a second's worth of nanoseconds, as
\* strftime('%Y-%m-%d %H:%M:%S') writes it.
EpochStr == <<"1", "9", "7", "0", "-", "0", "1", "-", "0", "1", " ",
              "0", "0", ":", "0", "0", ":", "0", "0">>

\* str(v) of a python object.
PyStr(v) ==
    CASE v.t = "null" -> NanStr
      [] v.t = "num" -> IF v.d = 1 THEN IntStr(v.n) ELSE FloatStr(v)
      [] v.t = "bool" -> IF v.n = 1 THEN <<"T", "r", "u", "e">>
                                    ELSE <<"F", "a", "l", "s", "e">>
      [] v.t = "str" -> v.s
      [] OTHER -> EpochStr

\* series.astype(str), for one cell of a column of the given dtype.
AsStr(v, dtype) ==
    IF dtype = "float64" /\ v.t = "num" THEN FloatStr(v) ELSE PyStr(v)

\* sub in s (str.contains with a pattern of plain characters).
Contains(s, sub) ==
    \E i \in 0..(Len(s) - Len(sub)) : SubSeq(s, i + 1, i + Len(sub)) = sub

\* str.strip()
RECURSIVE LStrip(_)
LStrip(s) == IF s # <<>> /\ Head(s) = " " THEN LStrip(Tail(s)) ELSE s

RECURSIVE RStrip(_)
RStrip(s) ==
    IF s # <<>> /\ s[Len(s)] = " " THEN RStrip(SubSeq(s, 1, Len(s) - 1)) ELSE s

Strip(s) == RStrip(LStrip(s))

\* The number a string of digits, with or without a trailing ".0", stands
\* for; Null (NaN) for any other string.
IsDigit(ch) == \E i \in DOMAIN Digits : Digits[i] = ch

DigitVal(ch) == (CHOOSE i \in DOMAIN Digits : Digits[i] = ch) - 1

RECURSIVE DigitsVal(_, _)
DigitsVal(acc, s) ==
    IF s = <<>> THEN acc ELSE DigitsVal(10 * acc + DigitVal(Head(s)), Tail(s))

AllDigits(s) == s # <<>> /\ \A i \in DOMAIN s : IsDigit(s[i])

ParseNum(s) ==
    LET t == Strip(s)
        whole == SubSeq(t, 1, Len(t) - 2)
    IN  IF AllDigits(t) THEN Num(DigitsVal(0, t))
        ELSE IF Len(t) > 2 /\ SubSeq(t, Len(t) - 1, Len(t)) = <<".", "0">>
                /\ AllDigits(whole)
        THEN Num(DigitsVal(0, whole))
        ELSE Null

\* pd.to_numeric(series, errors='coerce'), for one cell.
ToNumeric(v) ==
    CASE v.t = "num" -> v
      [] v.t = "bool" -> Num(v.n)
      [] v.t = "str" -> ParseNum(v.s)
      [] v.t = "date" -> Num(v.n)
      [] OTHER -> Null

\* ---- Dataframes: the column names, each column's dtype, and the rows,
\* each row a sequence of cells in column order.

Frame(cols, dtypes, rows) == [cols |-> cols, dtypes |-> dtypes, rows |-> rows]

EmptyFrame == Frame(<<>>, <<>>, <<>>)

InSeq(x, seq) == \E i \in DOMAIN seq : seq[i] = x

IndexOf(x, seq) == CHOOSE i \in DOMAIN seq : seq[i] = x /\ \A j \in 1..(i - 1) : seq[j] # x

HasCol(df, c) == InSeq(c, df.cols)

ColIdx(df, c) == IndexOf(c, df.cols)

Column(df, c) == [r \in DOMAIN df.rows |-> df.rows[r][ColIdx(df, c)]]

\* The dtype pandas infers for a column holding these values.
InferDtype(vals) ==
    IF \A i \in DOMAIN vals : vals[i].t = "num" /\ vals[i].d = 1 THEN "int64"
    ELSE IF \A i \in DOMAIN vals : vals[i].t \in {"num", "null"} THEN "float64"
    ELSE IF \A i \in DOMAIN vals : vals[i].t = "bool" THEN "bool"
    ELSE IF \A i \in DOMAIN vals : vals[i].t \in {"date", "null"} THEN "datetime64[ns]"
    ELSE "object"

\* A record of the input is a python dict: its (key, value) pairs in
\* insertion order.
DictHas(dict, k) == \E i \in DOMAIN dict : dict[i][1] = k

DictGet(dict, k) ==
    IF DictHas(dict, k)
    THEN dict[CHOOSE i \in DOMAIN dict : dict[i][1] = k][2]
    ELSE Null

RECURSIVE AddKeys(_, _)
AddKeys(cols, dict) ==
    IF dict = <<>> THEN cols
    ELSE AddKeys(IF InSeq(Head(dict)[1], cols) THEN cols
                 ELSE Append(cols, Head(dict)[1]),
                 Tail(dict))

RECURSIVE FirstSeen(_, _)
FirstSeen(cols, data) ==
    IF data = <<>> THEN cols
    ELSE FirstSeen(AddKeys(cols, Head(data)), Tail(data))

\* pd.DataFrame(data): the columns are the keys in order of first
\* appearance, a missing key is NaN.
DataFrame(data) ==
    LET cols == FirstSeen(<<>>, data)
        rows == [r \in DOMAIN data |->
                    [j \in DOMAIN cols |-> DictGet(data[r], cols[j])]]
        dtypes == [j \in DOMAIN cols |->
                    InferDtype([r \in DOMAIN rows |-> rows[r][j]])]
    IN  Frame(cols, dtypes, rows)

\* df.to_dict('records')
ToRecords(df) ==
    [r \in DOMAIN df.rows |->
        [j \in DOMAIN df.cols |-> <<df.cols[j], df.rows[r][j]>>]]

\* What a transformation handler does: it returns a dataframe or raises.
\* caught: the handler's own except block took an exception, printed it
\* and returned the frame it was given.
Ok(df) == [raised |-> FALSE, df |-> df, caught |-> FALSE]
Raise == [raised |-> TRUE, df |-> EmptyFrame, caught |-> FALSE]
Caught(df) == [raised |-> FALSE, df |-> df, caught |-> TRUE]

\* df[mask], the mask computed cell by cell from one column.
KeepRows(df, c, Test(_)) ==
    LET j == ColIdx(df, c)
    IN  [df EXCEPT !.rows = SelectSeq(df.rows, LAMBDA row : Test(row[j]))]

\* df[names]
TakeCols(df, names) ==
    LET idx == [k \in DOMAIN names |-> ColIdx(df, names[k])]
    IN  Frame(names,
              [k \in DOMAIN names |-> df.dtypes[idx[k]]],
              [r \in DOMAIN df.rows |-> [k \in DOMAIN names |-> df.rows[r][idx[k]]]])

\* ---- Configurations.  A missing key reads as the default of config.get:
\* "" for field, operator and newType (None), Null for value, <<>> for the
\* lists and the mapping, FALSE for the flags; order defaults to "asc".
NoConfig ==
    [field |-> "", operator |-> "", value |-> Null,
     fields |-> <<>>, order |-> "asc", mappings |-> <<>>, newType |-> "",
     removeNulls |-> FALSE, trimWhitespace |-> FALSE,
     groupBy |-> <<>>, aggregations |-> <<>>]

\* ---- The handlers.

_apply_filter(df, config) ==
    LET field == config.field
        operator == config.operator
        value == config.value
    IN  IF ~(field # "" /\ operator # "" /\ Truthy(value)) THEN Ok(df)
        ELSE IF ~HasCol(df, field) THEN Ok(df)
        ELSE LET dtype == df.dtypes[ColIdx(df, field)]
                 bound == ToNumeric(value)
             IN  CASE operator = "equals" ->
                        Ok(KeepRows(df, field, LAMBDA x : PyEq(x, value)))
                   [] operator = "not_equals" ->
                        Ok(KeepRows(df, field, LAMBDA x : ~PyEq(x, value)))
                   [] operator = "contains" ->
                        Ok(KeepRows(df, field,
                             LAMBDA x : Contains(AsStr(x, dtype), PyStr(value))))
                   [] operator = "greater_than" ->
                        \* float(value) raises on a string that is no
                        \* number: "Filter error", the frame as it was
                        IF IsNull(bound) THEN Caught(df)
                        ELSE Ok(KeepRows(df, field,
                                  LAMBDA x : PyLess(bound, ToNumeric(x))))
                   [] operator = "less_than" ->
                        IF IsNull(bound) THEN Caught(df)
                        ELSE Ok(KeepRows(df, field,
                                  LAMBDA x : PyLess(ToNumeric(x), bound)))
                   [] OTHER -> Ok(df)

\* A selection that keeps the valid fields even when there are none.
_apply_select_unguarded(df, config) ==
    LET fields == config.fields
        valid_fields == SelectSeq(fields, LAMBDA f : HasCol(df, f))
    IN  IF fields = <<>> THEN Ok(df) ELSE Ok(TakeCols(df, valid_fields))

_apply_select(df, config) ==
    LET fields == config.fields
        valid_fields == SelectSeq(fields, LAMBDA f : HasCol(df, f))
    IN  IF fields = <<>> THEN Ok(df)
        ELSE IF valid_fields # <<>> THEN Ok(TakeCols(df, valid_fields))
        ELSE Ok(df)

\* Whether row x goes before row y when sorting by the columns at idx:
\* by the first column on which they differ, NaN last in either direction.
RECURSIVE RowBefore(_, _, _, _)
RowBefore(x, y, idx, ascending) ==
    IF idx = <<>> THEN FALSE
    ELSE LET a == x[Head(idx)]
             b == y[Head(idx)]
         IN  IF IsNull(a) /\ IsNull(b) THEN RowBefore(x, y, Tail(idx), ascending)
             ELSE IF IsNull(a) THEN FALSE
             ELSE IF IsNull(b) THEN TRUE
             ELSE IF PyLess(a, b) THEN ascending
             ELSE IF PyLess(b, a) THEN ~ascending
             ELSE RowBefore(x, y, Tail(idx), ascending)

\* Insert x behind every row of the sorted sequence it does not go before.
RECURSIVE InsertRow(_, _, _, _)
InsertRow(x, sorted, idx, ascending) ==
    IF sorted = <<>> THEN <<x>>
    ELSE IF RowBefore(x, Head(sorted), idx, ascending) THEN <<x>> \o sorted
    ELSE <<Head(sorted)>> \o InsertRow(x, Tail(sorted), idx, ascending)

\* A sort that returns the rows it was given followed by the sorted ones.
SortRowsAppended(done, rows, idx, ascending) == rows \o rows

\* A stable sort: rows that compare equal keep their order.
RECURSIVE SortRows(_, _, _, _)
SortRows(done, rows, idx, ascending) ==
    IF rows = <<>> THEN done
    ELSE SortRows(InsertRow(Head(rows), done, idx, ascending), Tail(rows),
                  idx, ascending)

\* A column whose cells cannot be ordered: python orders numbers among
\* themselves, strings among themselves, timestamps among themselves.
OrderClass(v) == IF IsNumber(v) THEN "num" ELSE v.t

Unorderable(df, c) ==
    LET col == Column(df, c)
    IN  \E i, j \in DOMAIN col :
            /\ ~IsNull(col[i])
            /\ ~IsNull(col[j])
            /\ OrderClass(col[i]) # OrderClass(col[j])

\* sort_values raises TypeError on a column of strings and numbers: the
\* handler has no try, so the exception leaves it.
_apply_sort(df, config) ==
    LET fields == config.fields
        order == config.order
        valid_fields == SelectSeq(fields, LAMBDA f : HasCol(df, f))
        ascending == (order = "asc")
        idx == [k \in DOMAIN valid_fields |-> ColIdx(df, valid_fields[k])]
    IN  IF fields = <<>> THEN Ok(df)
        ELSE IF valid_fields # <<>>
        THEN IF \E k \in DOMAIN valid_fields : Unorderable(df, valid_fields[k])
             THEN Raise
             ELSE Ok([df EXCEPT !.rows = SortRows(<<>>, df.rows, idx, ascending)])
        ELSE Ok(df)

\* new.strip() is empty: a name of blanks only.
BlankNames == {"", " ", "  "}

\* mappings is a dict: its (old, new) pairs in insertion order.
_apply_rename(df, config) ==
    LET mappings == config.mappings
        valid_mappings ==
            SelectSeq(mappings, LAMBDA m : HasCol(df, m[1]) /\ m[2] \notin BlankNames)
        Renamed(c) ==
            IF \E k \in DOMAIN valid_mappings : valid_mappings[k][1] = c
            THEN valid_mappings[CHOOSE k \in DOMAIN valid_mappings :
                                    valid_mappings[k][1] = c][2]
            ELSE c
    IN  IF mappings = <<>> THEN Ok(df)
        ELSE IF valid_mappings # <<>>
        THEN Ok([df EXCEPT !.cols = [j \in DOMAIN df.cols |-> Renamed(df.cols[j])]])
        ELSE Ok(df)

\* df[c] = f(df[c]) with the dtype pandas gives the new column.
SetColumn(df, c, F(_), Dtype(_)) ==
    LET j == ColIdx(df, c)
        rows == [r \in DOMAIN df.rows |-> [df.rows[r] EXCEPT ![j] = F(df.rows[r][j])]]
    IN  Frame(df.cols,
              [df.dtypes EXCEPT ![j] = Dtype([r \in DOMAIN rows |-> rows[r][j]])],
              rows)

\* pd.to_datetime(series, errors='coerce'), for one cell: a number is a
\* count of nanoseconds, a string that is no date is NaT.
ToDatetime(v) ==
    CASE v.t = "date" -> v
      [] v.t = "num" /\ v.d = 1 -> Date(v.n)
      [] OTHER -> Null

\* series.astype(bool), for one cell: NaN is True.
ToBool(v) ==
    CASE v.t = "null" -> Bool(TRUE)
      [] OTHER -> Bool(Truthy(v))

_apply_convert(df, config) ==
    LET field == config.field
        new_type == config.newType
    IN  IF field = "" \/ new_type = "" \/ ~HasCol(df, field) THEN Ok(df)
        ELSE LET dtype == df.dtypes[ColIdx(df, field)]
             IN  CASE new_type = "number" ->
                        \* a bool column is numeric already
                        IF dtype = "bool" THEN Ok(df)
                        ELSE Ok(SetColumn(df, field, ToNumeric, InferDtype))
                   [] new_type = "text" ->
                        Ok(SetColumn(df, field, LAMBDA x : Str(AsStr(x, dtype)),
                                     LAMBDA col : "object"))
                   [] new_type = "date" ->
                        Ok(SetColumn(df, field, ToDatetime,
                                     LAMBDA col : "datetime64[ns]"))
                   [] new_type = "boolean" ->
                        \* a datetime column has no astype(bool):
                        \* "Conversion error", the frame as it was
                        IF dtype = "datetime64[ns]" THEN Caught(df)
                        ELSE Ok(SetColumn(df, field, ToBool, LAMBDA col : "bool"))
                   [] OTHER -> Ok(df)

\* df.dropna(): the rows without a null cell.
DropNa(df) ==
    [df EXCEPT !.rows =
        SelectSeq(df.rows, LAMBDA row : \A j \in DOMAIN row : ~IsNull(row[j]))]

\* df[col].astype(str).str.strip() on every column of dtype object.
TrimObjectColumns(df) ==
    Frame(df.cols, df.dtypes,
          [r \in DOMAIN df.rows |->
              [j \in DOMAIN df.cols |->
                  IF df.dtypes[j] = "object"
                  THEN Str(Strip(AsStr(df.rows[r][j], "object")))
                  ELSE df.rows[r][j]]])

_apply_clean(df, config) ==
    LET remove_nulls == config.removeNulls
        trim_whitespace == config.trimWhitespace
        df1 == IF remove_nulls THEN DropNa(df) ELSE df
    IN  Ok(IF trim_whitespace THEN TrimObjectColumns(df1) ELSE df1)

\* ---- Aggregation.  An entry of config.aggregations is a dict with the
\* keys field, operation and alias; a missing alias reads as "".
Aggregation(field, operation, alias) ==
    [field |-> field, operation |-> operation, alias |-> alias]

PandasFunctions == {"sum", "avg", "count", "min", "max"}

\* agg_dict, in insertion order: one (field, operation) pair per field,
\* a later entry for the same field replacing the operation in place.
RECURSIVE BuildAggDict(_, _, _)
BuildAggDict(agg_dict, df, aggregations) ==
    IF aggregations = <<>> THEN agg_dict
    ELSE LET agg == Head(aggregations)
             field == agg.field
             operation == agg.operation
             next ==
                IF ~HasCol(df, field) \/ operation \notin PandasFunctions
                THEN agg_dict
                ELSE IF \E k \in DOMAIN agg_dict : agg_dict[k][1] = field
                THEN [k \in DOMAIN agg_dict |->
                        IF agg_dict[k][1] = field THEN <<field, operation>>
                        ELSE agg_dict[k]]
                ELSE Append(agg_dict, <<field, operation>>)
         IN  BuildAggDict(next, df, Tail(aggregations))

AddNum(x, y) == Frac(x.n * y.d + y.n * x.d, x.d * y.d)

RECURSIVE SumOf(_)
SumOf(vals) == IF vals = <<>> THEN Num(0) ELSE AddNum(Head(vals), SumOf(Tail(vals)))

RECURSIVE LeastOf(_, _)
LeastOf(best, vals) ==
    IF vals = <<>> THEN best
    ELSE LeastOf(IF PyLess(Head(vals), best) THEN Head(vals) ELSE best, Tail(vals))

RECURSIVE GreatestOf(_, _)
GreatestOf(best, vals) ==
    IF vals = <<>> THEN best
    ELSE GreatestOf(IF PyLess(best, Head(vals)) THEN Head(vals) ELSE best, Tail(vals))

\* One group's value of a pandas aggregation function over the cells of a
\* column; nulls are skipped.
Aggregate(operation, cells) ==
    LET vals == SelectSeq(cells, LAMBDA v : ~IsNull(v))
    IN  CASE operation = "sum" -> SumOf(vals)
          [] operation = "avg" ->
                IF vals = <<>> THEN Null
                ELSE LET total == SumOf(vals) IN Frac(total.n, total.d * Len(vals))
          [] operation = "count" -> Num(Len(vals))
          [] operation = "min" ->
                IF vals = <<>> THEN Null ELSE LeastOf(Head(vals), Tail(vals))
          [] OTHER ->
                IF vals = <<>> THEN Null ELSE GreatestOf(Head(vals), Tail(vals))

AggDtype(operation, dtype) ==
    CASE operation = "avg" -> "float64"
      [] operation = "count" -> "int64"
      [] OTHER -> dtype

\* The order of the group keys: numbers before strings before timestamps,
\* each kind in its own order.
ClassRank(v) ==
    CASE IsNumber(v) -> 1
      [] v.t = "str" -> 2
      [] OTHER -> 3

KeyCellLess(a, b) ==
    IF ClassRank(a) # ClassRank(b) THEN ClassRank(a) < ClassRank(b) ELSE PyLess(a, b)

RECURSIVE KeyLess(_, _)
KeyLess(x, y) ==
    IF x = <<>> THEN FALSE
    ELSE IF KeyCellLess(Head(x), Head(y)) THEN TRUE
    ELSE IF KeyCellLess(Head(y), Head(x)) THEN FALSE
    ELSE KeyLess(Tail(x), Tail(y))

RECURSIVE InsertKey(_, _)
InsertKey(key, sorted) ==
    IF sorted = <<>> THEN <<key>>
    ELSE IF key = Head(sorted) THEN sorted
    ELSE IF KeyLess(key, Head(sorted)) THEN <<key>> \o sorted
    ELSE <<Head(sorted)>> \o InsertKey(key, Tail(sorted))

RECURSIVE SortedKeys(_, _)
SortedKeys(sorted, keys) ==
    IF keys = <<>> THEN sorted
    ELSE SortedKeys(InsertKey(Head(keys), sorted), Tail(keys))

\* Whether pandas can compute the function over a column of this dtype.
\* The inputs of the model aggregate numeric columns only.
Aggregable(df, field, operation) ==
    LET dtype == df.dtypes[ColIdx(df, field)]
    IN  CASE operation \in {"sum", "avg"} -> dtype \in {"int64", "float64", "bool"}
          [] operation \in {"min", "max"} -> ~Unorderable(df, field)
          [] OTHER -> TRUE

\* df.groupby(keys).agg(agg_dict).reset_index(): one row per key, the keys
\* in sorted order, rows with a null key left out; the key columns come
\* first, then one column per entry of agg_dict, named by its field.
GroupByAgg(df, keys, agg_dict) ==
    LET kidx == [k \in DOMAIN keys |-> ColIdx(df, keys[k])]
        KeyOf(row) == [k \in DOMAIN kidx |-> row[kidx[k]]]
        keyed == SelectSeq(df.rows,
                           LAMBDA row : \A k \in DOMAIN kidx : ~IsNull(row[kidx[k]]))
        groups == SortedKeys(<<>>, [r \in DOMAIN keyed |-> KeyOf(keyed[r])])
        Members(key) == SelectSeq(keyed, LAMBDA row : KeyOf(row) = key)
        CellsOf(key, field) ==
            LET j == ColIdx(df, field)
                rows == Members(key)
            IN  [r \in DOMAIN rows |-> rows[r][j]]
    IN  Frame(keys \o [k \in DOMAIN agg_dict |-> agg_dict[k][1]],
              [k \in DOMAIN kidx |-> df.dtypes[kidx[k]]] \o
                  [k \in DOMAIN agg_dict |->
                      AggDtype(agg_dict[k][2],
                               df.dtypes[ColIdx(df, agg_dict[k][1])])],
              [g \in DOMAIN groups |->
                  groups[g] \o
                  [k \in DOMAIN agg_dict |->
                      Aggregate(agg_dict[k][2], CellsOf(groups[g], agg_dict[k][1]))]])

\* The second loop over config.aggregations: a column named by the entry's
\* field is renamed to the entry's alias, one entry after the other.
RECURSIVE RenameToAliases(_, _)
RenameToAliases(grouped, aggregations) ==
    IF aggregations = <<>> THEN grouped
    ELSE LET field == Head(aggregations).field
             alias == Head(aggregations).alias
             next ==
                IF HasCol(grouped, field) /\ alias # "" /\ alias # field
                THEN [grouped EXCEPT !.cols =
                        [j \in DOMAIN grouped.cols |->
                            IF grouped.cols[j] = field THEN alias
                            ELSE grouped.cols[j]]]
                ELSE grouped
         IN  RenameToAliases(next, Tail(aggregations))

_apply_aggregate(df, config) ==
    LET group_by == config.groupBy
        aggregations == config.aggregations
        valid_group_by == SelectSeq(group_by, LAMBDA f : HasCol(df, f))
        agg_dict == BuildAggDict(<<>>, df, aggregations)
    IN  IF group_by = <<>> \/ aggregations = <<>> THEN Ok(df)
        ELSE IF valid_group_by = <<>> THEN Ok(df)
        ELSE IF agg_dict = <<>> THEN Ok(df)
        \* "Aggregation error", the frame as it was: a key column named as
        \* an aggregated field, or a function the column's dtype lacks
        ELSE IF \E k \in DOMAIN agg_dict :
                    \/ InSeq(agg_dict[k][1], valid_group_by)
                    \/ ~Aggregable(df, agg_dict[k][1], agg_dict[k][2])
        THEN Caught(df)
        ELSE Ok(RenameToAliases(GroupByAgg(df, valid_group_by, agg_dict),
                                aggregations))

\* ---- apply_transformations.

\* The keys of self.transformation_methods.
TransformationTypes ==
    {"filter", "select", "aggregate", "sort", "rename", "convert", "clean"}

\* self.transformation_methods[transform_type](df, config)
Dispatch(transform_type, df, config) ==
    CASE transform_type = "filter" -> _apply_filter(df, config)
      [] transform_type = "select" -> _apply_select(df, config)
      [] transform_type = "aggregate" -> _apply_aggregate(df, config)
      [] transform_type = "sort" -> _apply_sort(df, config)
      [] transform_type = "rename" -> _apply_rename(df, config)
      [] transform_type = "convert" -> _apply_convert(df, config)
      [] OTHER -> _apply_clean(df, config)

\* An entry of the list: a dict with the keys type and config; a missing
\* type reads as "" (None), a missing config as NoConfig ({}).
Transformation(type, config) == [type |-> type, config |-> config]

\* A loop that gives up on a type it does not know.
SkipUnknownRaises(df) == Raise

\* The else branch of the loop body: "Unknown transformation type".
SkipUnknown(df) == Ok(df)

\* The body of the loop for one entry.
ApplyEntry(df, transformation) ==
    LET transform_type == transformation.type
        config == transformation.config
    IN  IF transform_type \in TransformationTypes
        THEN Dispatch(transform_type, df, config)
        ELSE SkipUnknown(df)

\* The place of a type in the pipeline filter, select, aggregate, sort,
\* rename, convert, clean; any other type comes last.
PipelineOrder ==
    <<"filter", "select", "aggregate", "sort", "rename", "convert", "clean">>

RECURSIVE ByPipeline(_, _)
ByPipeline(transformations, k) ==
    IF k > Len(PipelineOrder)
    THEN SelectSeq(transformations, LAMBDA t : t.type \notin TransformationTypes)
    ELSE SelectSeq(transformations, LAMBDA t : t.type = PipelineOrder[k])
         \o ByPipeline(transformations, k + 1)

PipelineSorted(transformations) == ByPipeline(transformations, 1)

\* A loop that runs the entries by type, in the pipeline order.
EntryInPipelineOrder(transformations, i) == PipelineSorted(transformations)[i]

\* A loop that hands every handler the frame of the input.
LoopFrameOfInput(s) == DataFrame(s.data)

\* A loop that runs the entry before once more.
EntryRetried(transformations, i) == transformations[IF i > 1 THEN i - 1 ELSE i]

\* The entry the i-th iteration of "for i, transformation in
\* enumerate(transformations)" works on.
EntryAt(transformations, i) == transformations[i]

\* The frame the iteration hands to the handler: the loop variable df.
LoopFrame(s) == s.df

\* The loop after the transformations: a datetime column is written as
\* strings, NaT as NaN.
StrftimeColumns(df) ==
    Frame(df.cols,
          [j \in DOMAIN df.cols |->
              IF df.dtypes[j] = "datetime64[ns]" THEN "object" ELSE df.dtypes[j]],
          [r \in DOMAIN df.rows |->
              [j \in DOMAIN df.cols |->
                  IF df.dtypes[j] = "datetime64[ns]" /\ df.rows[r][j].t = "date"
                  THEN Str(EpochStr)
                  ELSE df.rows[r][j]]])

\* The dictionary apply_transformations returns.  The failure dictionary
\* has neither columns nor transformations_applied: <<>> and -1 here.
SuccessResult(df, original_count, transformations) ==
    LET result_data == ToRecords(df)
    IN  [success |-> TRUE, error |-> FALSE, data |-> result_data,
         original_count |-> original_count,
         transformed_count |-> Len(result_data),
         columns |-> df.cols,
         transformations_applied |-> Len(transformations)]

FailureResult(data) ==
    [success |-> FALSE, error |-> TRUE, data |-> data,
     original_count |-> Len(data), transformed_count |-> 0,
     columns |-> <<>>, transformations_applied |-> -1]

\* ---- The inputs of the model.

S(string) == Str(string)

X == S(<<"x">>)
SpaceX == S(<<" ", "x">>)
Y == S(<<"y">>)

Rec(a, b) == <<<<"a", a>>, <<"b", b>>>>
OnlyA(a) == <<<<"a", a>>>>
OnlyB(b) == <<<<"b", b>>>>

DataPool ==
    { <<>>,
      <<Rec(X, Num(1)), Rec(Y, Num(2)), Rec(X, Num(2))>>,
      <<Rec(SpaceX, Num(2)), OnlyB(Num(0)), Rec(X, Num(1))>>,
      <<Rec(Num(1), Num(1)), Rec(X, Num(0))>>,
      <<OnlyB(Num(2)), OnlyA(X), Rec(X, Num(1))>> }

Catalogue ==
    { Transformation("filter",
          [NoConfig EXCEPT !.field = "a", !.operator = "equals", !.value = X]),
      Transformation("filter",
          [NoConfig EXCEPT !.field = "b", !.operator = "greater_than",
                           !.value = Num(1)]),
      Transformation("filter",
          [NoConfig EXCEPT !.field = "b", !.operator = "greater_than",
                           !.value = X]),
      Transformation("select", [NoConfig EXCEPT !.fields = <<"b">>]),
      Transformation("sort",
          [NoConfig EXCEPT !.fields = <<"b">>, !.order = "desc"]),
      Transformation("sort", [NoConfig EXCEPT !.fields = <<"a">>]),
      Transformation("rename", [NoConfig EXCEPT !.mappings = <<<<"a", "c">>>>]),
      Transformation("convert",
          [NoConfig EXCEPT !.field = "a", !.newType = "number"]),
      Transformation("convert",
          [NoConfig EXCEPT !.field = "a", !.newType = "text"]),
      Transformation("clean", [NoConfig EXCEPT !.removeNulls = TRUE]),
      Transformation("clean", [NoConfig EXCEPT !.trimWhitespace = TRUE]),
      Transformation("aggregate",
          [NoConfig EXCEPT !.groupBy = <<"a">>,
                           !.aggregations = <<Aggregation("b", "sum", "total")>>]),
      Transformation("pivot", [NoConfig EXCEPT !.fields = <<"b">>]),
      Transformation("", [NoConfig EXCEPT !.removeNulls = TRUE]) }

\* The longest list of transformations of a call.
MaxSteps == 2

RECURSIVE ListsUpTo(_)
ListsUpTo(n) ==
    IF n = 0 THEN {<<>>}
    ELSE LET shorter == ListsUpTo(n - 1)
         IN  shorter \cup {Append(l, t) : l \in shorter, t \in Catalogue}

TransformationLists == ListsUpTo(MaxSteps)

\* ---- The call, one loop iteration per step.

\* engine.apply_transformations(data, transformations) up to the loop.
Call ==
    /\ xf.pc = "idle"
    /\ \E data \in DataPool, transformations \in TransformationLists :
          xf' = [pc |-> "loop", data |-> data,
                 transformations |-> transformations, i |-> 1,
                 df |-> DataFrame(data),
                 original_count |-> Len(DataFrame(data).rows),
                 skipped |-> {},
                 result |-> FailureResult(<<>>)]
    /\ UNCHANGED <<cliVars, srvVars, handled, asked, da>>

\* A data argument that is no list but a JSON number.
ScalarData == {Num(5)}

\* engine.apply_transformations(data, transformations) with a number as
\* data: pd.DataFrame(data) raises ValueError inside the try, and in the
\* except block len(data) raises TypeError, which leaves the call.
CallOnScalar ==
    /\ xf.pc = "idle"
    /\ \E data \in ScalarData, transformations \in TransformationLists :
          xf' = [pc |-> "raised", data |-> data,
                 transformations |-> transformations]
    /\ UNCHANGED <<cliVars, srvVars, handled, asked, da>>

\* One iteration of the loop; an exception that leaves the handler ends
\* the call in the except block.
Step ==
    /\ xf.pc = "loop"
    /\ xf.i <= Len(xf.transformations)
    /\ LET r == ApplyEntry(LoopFrame(xf), EntryAt(xf.transformations, xf.i))
       IN  IF r.raised
           THEN xf' = [xf EXCEPT !.pc = "done", !.result = FailureResult(xf.data)]
           ELSE xf' = [xf EXCEPT !.df = r.df, !.i = xf.i + 1,
                                 !.skipped = IF r.caught
                                             THEN xf.skipped \cup {xf.i}
                                             ELSE xf.skipped]
    /\ UNCHANGED <<cliVars, srvVars, handled, asked, da>>

\* After the loop: the datetime columns, the records, the dictionary.
Finish ==
    /\ xf.pc = "loop"
    /\ xf.i > Len(xf.transformations)
    /\ LET df == StrftimeColumns(xf.df)
       IN  xf' = [xf EXCEPT !.pc = "done", !.df = df,
                            !.result = SuccessResult(df, xf.original_count,
                                                     xf.transformations)]
    /\ UNCHANGED <<cliVars, srvVars, handled, asked, da>>

InitXform ==
    /\ run = NotRun
    /\ xf = XfIdle
    /\ handled = NotHandled
    /\ asked = NotAsked
    /\ da = NotStarted
    /\ projects_db = <<>>
    /\ users_db = <<>>
    /\ tokens_db = <<>>
    /\ inflight = {}
    /\ resp = NoResponse

NextXform ==
    \/ Call
    \/ CallOnScalar
    \/ Step
    \/ Finish

SpecXform == InitXform /\ [][NextXform]_vars

\* ---- The composition of a list of operations, and what a call returns
\* for it.

RECURSIVE Compose(_, _)
Compose(transformations, df) ==
    IF transformations = <<>> THEN Ok(df)
    ELSE LET r == ApplyEntry(df, Head(transformations))
         IN  IF r.raised THEN Raise ELSE Compose(Tail(transformations), r.df)

Outcome(data, transformations) ==
    LET r == Compose(transformations, DataFrame(data))
    IN  IF r.raised
        THEN FailureResult(data)
        ELSE SuccessResult(StrftimeColumns(r.df), Len(data), transformations)

Returned_ == xf.pc = "done"

\* C4: apply_transformations applies the transformations in list order,
\* each one to the frame the previous one produced: what the call returns
\* is the left-to-right composition of the listed operations on the input.
C4_ResultIsLeftToRightComposition ==
    Returned_ => xf.result = Outcome(xf.data, xf.transformations)

\* A call of two operations that both change the frame, the second one
\* giving something else on the input than on the frame of the first.
C4_Witness ==
    /\ Returned_
    /\ xf.result.success
    /\ Len(xf.transformations) = 2
    /\ LET df == DataFrame(xf.data)
           first == ApplyEntry(df, xf.transformations[1])
           second == ApplyEntry(df, xf.transformations[2])
       IN  /\ first.df # df
           /\ xf.result.data # ToRecords(first.df)
           /\ ~second.raised
           /\ xf.result.data # ToRecords(second.df)

\* The lists that hold the same transformations in another order.
Reorderings(transformations) ==
    { [i \in DOMAIN transformations |-> transformations[f[i]]] :
          f \in Permutations(DOMAIN transformations) }

\* C5 as stated: the transformations run in a fixed pipeline order, so a
\* list returns what every reordering of it returns.
C5_ListOrderIsIrrelevant ==
    Returned_ =>
        /\ xf.result = Outcome(xf.data, PipelineSorted(xf.transformations))
        /\ \A other \in Reorderings(xf.transformations) :
              Outcome(xf.data, other) = xf.result

\* C5: the transformations run in the order of the list, whatever their
\* types: after k iterations the frame is the composition of the first k
\* entries of the list on the input.
C5_LoopFollowsListOrder ==
    xf.pc = "loop" =>
        Compose(SubSeq(xf.transformations, 1, xf.i - 1), DataFrame(xf.data))
            = Ok(xf.df)

\* The loop has run a list that is not in pipeline order, and its frame is
\* not the one the pipeline order gives.
C5_Witness ==
    /\ xf.pc = "loop"
    /\ xf.i > Len(xf.transformations)
    /\ PipelineSorted(xf.transformations) # xf.transformations
    /\ Compose(PipelineSorted(xf.transformations), DataFrame(xf.data))
          # Ok(xf.df)

Known(transformations) ==
    SelectSeq(transformations, LAMBDA t : t.type \in TransformationTypes)

BearerPrefix == [kind |-> "Bearer ", id |-> 0]
BasicPrefix == [kind |-> "Basic ", id |-> 0]
Uuid(n) == [kind |-> "uuid", id |-> n]

\* r.headers.get("authorization"): None without the header.
NoHeader == [none |-> TRUE, text |-> <<>>]
Header(text) == [none |-> FALSE, text |-> text]

\* The tokens and the project ids uuid4 draws in a run of the model.
MaxTokens == 2
MaxProjects == 2

Users == {"alice", "bob"}

\* str(uuid.uuid4()): a token no earlier call gave.  UUIDs are opaque, so
\* the model draws them in the order 1, 2, ...
generate_token(issued) == <<Uuid(issued + 1)>>

\* An assignment that leaves the new entry alone in the dict.
DictOnly(dict, k, v) == <<<<k, v>>>>

\* dict[key] = value on an insertion-ordered dict.
DictSet(dict, k, v) ==
    IF DictHas(dict, k)
    THEN [i \in DOMAIN dict |-> IF dict[i][1] = k THEN <<k, v>> ELSE dict[i]]
    ELSE Append(dict, <<k, v>>)

Keys(dict) == { dict[i][1] : i \in DOMAIN dict }

Values(dict) == [i \in DOMAIN dict |-> dict[i][2]]

\* authorization.startswith("Bearer ")
StartsWithBearer(text) == text # <<>> /\ text[1] = BearerPrefix

\* authorization.replace("Bearer ", ""): every occurrence goes.
ReplaceBearer(text) == SelectSeq(text, LAMBDA piece : piece # BearerPrefix)

Unauthorized(detail) == [status |-> 401, detail |-> detail, user |-> [user_id |-> ""]]

\* get_current_user against a token table: the user record, or the
\* HTTPException it raises.
get_current_user(tokens, authorization) ==
    IF authorization.none \/ authorization.text = <<>>
          \/ ~StartsWithBearer(authorization.text)
    THEN Unauthorized("Authentication required")
    ELSE LET token == ReplaceBearer(authorization.text)
         IN  IF ~DictHas(tokens, token)
             THEN Unauthorized("Invalid token")
             ELSE [status |-> 200, detail |-> "", user |-> DictGet(tokens, token)]

\* ---- Responses.

Response(op, authorization, project_id, status, detail, body) ==
    [op |-> op, authorization |-> authorization, project_id |-> project_id,
     status |-> status, detail |-> detail, body |-> body]

HTTPException(op, authorization, project_id, status, detail) ==
    Response(op, authorization, project_id, status, detail, <<>>)

\* ---- list_projects and get_project against a project table.

list_projects(projects, authorization) ==
    LET auth == get_current_user(tokens_db, authorization)
    IN  IF auth.status # 200
        THEN HTTPException("list", authorization, 0, auth.status, auth.detail)
        ELSE LET user_projects ==
                     SelectSeq(Values(projects),
                               LAMBDA p : p.owner_id = auth.user.user_id)
             IN  Response("list", authorization, 0, 200, "", user_projects)

\* A reader that hands a project to any authenticated caller.
get_project_of_anyone(projects, project_id, authorization) ==
    LET auth == get_current_user(tokens_db, authorization)
    IN  IF auth.status # 200
        THEN HTTPException("get", authorization, project_id, auth.status, auth.detail)
        ELSE IF ~DictHas(projects, project_id)
             THEN HTTPException("get", authorization, project_id, 404,
                                "Project not found")
             ELSE Response("get", authorization, project_id, 200, "",
                           DictGet(projects, project_id))

get_project(projects, project_id, authorization) ==
    LET auth == get_current_user(tokens_db, authorization)
    IN  IF auth.status # 200
        THEN HTTPException("get", authorization, project_id, auth.status, auth.detail)
        ELSE IF \/ ~DictHas(projects, project_id)
                \/ DictGet(projects, project_id).owner_id # auth.user.user_id
             THEN HTTPException("get", authorization, project_id, 404,
                                "Project not found")
             ELSE Response("get", authorization, project_id, 200, "",
                           DictGet(projects, project_id))

\* ---- Schema inference.

\* str(dtype), character by character.
DtypeName(dtype) ==
    CASE dtype = "int64" -> <<"i", "n", "t", "6", "4">>
      [] dtype = "float64" -> <<"f", "l", "o", "a", "t", "6", "4">>
      [] dtype = "datetime64[ns]" ->
            <<"d", "a", "t", "e", "t", "i", "m", "e", "6", "4", "[", "n", "s", "]">>
      [] dtype = "bool" -> <<"b", "o", "o", "l">>
      [] OTHER -> <<"o", "b", "j", "e", "c", "t">>

\* str.startswith
StartsWith(string, prefix) ==
    /\ Len(prefix) <= Len(string)
    /\ SubSeq(string, 1, Len(prefix)) = prefix

\* DataAnalyzer._generate_schema: column -> label.
_generate_schema(df) ==
    [j \in DOMAIN df.cols |->
        LET dtype == DtypeName(df.dtypes[j])
        IN  <<df.cols[j],
              IF StartsWith(dtype, <<"i", "n", "t">>) THEN "integer"
              ELSE IF StartsWith(dtype, <<"f", "l", "o", "a", "t">>) THEN "float"
              ELSE IF StartsWith(dtype, <<"d", "a", "t", "e", "t", "i", "m", "e">>)
                   THEN "datetime"
              ELSE IF StartsWith(dtype, <<"b", "o", "o", "l">>) THEN "boolean"
              ELSE "text">>]

\* pd.api.types.is_integer_dtype, is_float_dtype, is_datetime64_any_dtype
is_integer_dtype(dtype) == dtype = "int64"
is_float_dtype(dtype) == dtype = "float64"
is_datetime64_any_dtype(dtype) == dtype = "datetime64[ns]"

\* The schema upload_project builds.
UploadSchema(df) ==
    [j \in DOMAIN df.cols |->
        <<df.cols[j],
          IF is_integer_dtype(df.dtypes[j]) THEN "integer"
          ELSE IF is_float_dtype(df.dtypes[j]) THEN "float"
          ELSE IF is_datetime64_any_dtype(df.dtypes[j]) THEN "datetime"
          ELSE "string">>]

\* ---- upload_project.

\* An uploaded file: the end of its name, whether pandas can read its
\* content, and the frame pandas reads from it.
File(suffix, readable, frame) ==
    [suffix |-> suffix, readable |-> readable, frame |-> frame]

\* df.head(n)
HeadRows(df, n) ==
    Frame(df.cols, df.dtypes,
          SubSeq(df.rows, 1, IF Len(df.rows) < n THEN Len(df.rows) ELSE n))

SnapshotRows == 10
PreviewRows == 5

\* The try block: the file is parsed by the end of its name.
ParsesFile(file) ==
    /\ file.suffix \in {".csv", ".json", ".xlsx", ".xls"}
    /\ file.readable

\* The placeholder insights.  The questions field comes as the list it
\* parses to, each question as the first group of keywords it holds.
Insights(question_list, df) ==
    [k \in DOMAIN question_list |->
        <<question_list[k],
          [about |-> question_list[k], records |-> Len(df.rows),
           dimensions |-> Len(df.cols)]>>]

\* A generator of ids that gives the same id again.
RepeatedProjectId(projects) == 1

\* str(uuid.uuid4()): an id no project has; as for the tokens, the model
\* draws them in the order 1, 2, ...
NewProjectId(projects) == Len(projects) + 1

Project(project_id, name, df, question_list, created_at, user) ==
    [id |-> project_id, name |-> name, schema |-> UploadSchema(df),
     questions |-> question_list, insights |-> Insights(question_list, df),
     created_at |-> created_at, owner_id |-> user.user_id,
     record_count |-> Len(df.rows), status |-> "active",
     data_snapshot |-> ToRecords(HeadRows(df, SnapshotRows))]

UploadBody(project_id, df) ==
    [project_id |-> project_id,
     preview |-> ToRecords(HeadRows(df, PreviewRows)),
     schema |-> UploadSchema(df), record_count |-> Len(df.rows)]

\* ---- The requests.

\* A token is issued to a user (registration and login are not part of
\* the server's file; the token is a fresh UUID, kept in tokens_db).
IssueToken ==
    /\ Len(tokens_db) < MaxTokens
    /\ \E user_id \in Users :
          tokens_db' = DictSet(tokens_db, generate_token(Len(tokens_db)),
                               [user_id |-> user_id])
    /\ UNCHANGED <<cliVars, xfVars, projects_db, users_db, inflight, resp>>

\* The tokens a client can quote, issued or not.
Quotable == { <<Uuid(n)>> : n \in 1..MaxTokens }

\* The header a client sends.
Headers ==
    {NoHeader, Header(<<>>), Header(<<BearerPrefix>>)} \cup
    UNION { { Header(token), Header(<<BasicPrefix>> \o token),
              Header(<<BearerPrefix>> \o token),
              Header(<<BearerPrefix, BearerPrefix>> \o token) } :
            token \in Quotable }

\* The forms a client posts: file, name, questions.
Form(file, name, questions) ==
    [file |-> file, name |-> name, questions |-> questions]

FormPool ==
    { Form(File(".csv", TRUE,
                Frame(<<"id", "price">>, <<"int64", "float64">>,
                      << <<Num(1), Frac(1, 2)>>, <<Num(2), Frac(3, 2)>> >>)),
           "sales", <<>>),
      Form(File(".json", TRUE,
                Frame(<<"when", "active", "name">>,
                      <<"datetime64[ns]", "bool", "object">>,
                      << <<Date(0), Bool(TRUE), X>> >>)),
           "events", <<"top">>),
      Form(File(".csv", FALSE, EmptyFrame), "sales", <<>>),
      Form(File(".txt", TRUE, EmptyFrame), "notes", <<>>) }

\* upload_project, from the request to the response.  The call is
\* suspended once, at "await file.read()", after the caller is known; it
\* reads nothing shared after that and no token is ever removed, so the
\* call is taken in one step, at the time it stores the project.
upload_project(form, authorization) ==
    LET auth == get_current_user(tokens_db, authorization)
        df == form.file.frame
        project_id == NewProjectId(projects_db)
    IN  IF auth.status # 200
        THEN /\ resp' = HTTPException("upload", authorization, 0,
                                      auth.status, auth.detail)
             /\ UNCHANGED projects_db
        ELSE IF ~ParsesFile(form.file)
        THEN /\ resp' = HTTPException("upload", authorization, 0, 400,
                                      "File processing error")
             /\ UNCHANGED projects_db
        ELSE /\ projects_db' =
                    DictSet(projects_db, project_id,
                            Project(project_id, form.name, df, form.questions,
                                    Len(projects_db), auth.user))
             /\ resp' = Response("upload", authorization, project_id, 200, "",
                                 UploadBody(project_id, df))

\* POST /upload_project
UploadProject ==
    /\ Len(projects_db) < MaxProjects
    /\ \E authorization \in Headers, form \in FormPool :
          upload_project(form, authorization)
    /\ UNCHANGED <<cliVars, xfVars, users_db, tokens_db, inflight>>

\* GET /projects
ListProjects ==
    /\ \E authorization \in Headers :
          resp' = list_projects(projects_db, authorization)
    /\ UNCHANGED <<cliVars, xfVars, projects_db, users_db, tokens_db, inflight>>

\* GET /projects/{project_id}
GetProject ==
    /\ \E authorization \in Headers, project_id \in 1..MaxProjects :
          resp' = get_project(projects_db, project_id, authorization)
    /\ UNCHANGED <<cliVars, xfVars, projects_db, users_db, tokens_db, inflight>>

InitServer ==
    /\ run = NotRun
    /\ xf = XfIdle
    /\ handled = NotHandled
    /\ asked = NotAsked
    /\ da = NotStarted
    /\ projects_db = <<>>
    /\ users_db = <<>>
    /\ tokens_db = <<>>
    /\ inflight = {}
    /\ resp = NoResponse

NextServer ==
    \/ IssueToken
    \/ UploadProject
    \/ ListProjects
    \/ GetProject

SpecServer == InitServer /\ [][NextServer]_vars

Responded == resp.status # 0

SchemaLabels == {"integer", "float", "datetime", "boolean", "text"}

LabelsOf(schema) == { schema[j][2] : j \in DOMAIN schema }

\* C7: schema inference gives every column one label of integer, float,
\* datetime, boolean, text, in DataAnalyzer._generate_schema and in the
\* schema upload_project stores.
C7_SchemaLabelsInTheSet ==
    /\ \A form \in FormPool :
          LabelsOf(_generate_schema(form.file.frame)) \subseteq SchemaLabels
    /\ \A i \in DOMAIN projects_db :
          LabelsOf(projects_db[i][2].schema) \subseteq SchemaLabels

\* The token a header carries: what follows its "Bearer " prefix.
CarriedToken(authorization) == Tail(authorization.text)

BadCredentials(authorization) ==
    \/ authorization.none
    \/ ~StartsWithBearer(authorization.text)
    \/ ~DictHas(tokens_db, CarriedToken(authorization))

\* C8: a request without the header, with a header that does not start
\* with "Bearer ", or with a token that is no key of tokens_db is answered
\* 401 and gets no project data.
C8_BadCredentialsRejected ==
    (Responded /\ BadCredentials(resp.authorization)) =>
        (resp.status = 401 /\ resp.body = <<>>)

\* The part of a project table one user owns.
OwnedBy(projects, user_id) ==
    SelectSeq(projects, LAMBDA entry : entry[2].owner_id = user_id)

\* C9: what list_projects and get_project answer an authenticated caller
\* is what they answer on a table holding the caller's projects alone:
\* the list is exactly the caller's projects, a project goes to its owner
\* only, and another user's project is answered like an id nobody has.
C9_OwnerIsolation ==
    (Responded /\ resp.op \in {"list", "get"} /\ resp.status # 401) =>
        LET user_id == get_current_user(tokens_db, resp.authorization).user.user_id
            own == OwnedBy(projects_db, user_id)
        IN  /\ resp.op = "list" =>
                  /\ resp = list_projects(own, resp.authorization)
                  /\ resp.body = Values(own)
            /\ resp.op = "get" =>
                  /\ resp = get_project(own, resp.project_id, resp.authorization)
                  /\ resp.status = 200 <=> DictHas(own, resp.project_id)
                  /\ resp.status = 200 =>
                        resp.body = DictGet(projects_db, resp.project_id)
                  /\ resp.status # 200 =>
                        (resp.status = 404 /\ resp.detail = "Project not found")

\* A caller asked for a stored project of another user and got the 404.
C9_Witness ==
    /\ Responded
    /\ resp.op = "get"
    /\ resp.status = 404
    /\ DictHas(projects_db, resp.project_id)
    /\ Len(OwnedBy(projects_db,
                   get_current_user(tokens_db, resp.authorization).user.user_id)) > 0

\* The header that carries a token after the "Bearer " prefix.
Bearing(token) == Header(<<BearerPrefix>> \o token)

\* C10: no step removes or overwrites an entry of tokens_db or
\* projects_db, so that at any time every token issued so far is accepted
\* for its user and every project stored so far is given as it was
\* stored to its owner, by get_project and in the list of list_projects.
C10_EntriesStay ==
    /\ [][ /\ \A i \in DOMAIN tokens_db :
                 i \in DOMAIN tokens_db' /\ tokens_db'[i] = tokens_db[i]
           /\ \A i \in DOMAIN projects_db :
                 i \in DOMAIN projects_db' /\ projects_db'[i] = projects_db[i]
         ]_vars
    /\ [](\A t \in DOMAIN tokens_db :
             LET authorization == Bearing(tokens_db[t][1])
                 user == tokens_db[t][2]
             IN  /\ get_current_user(tokens_db, authorization)
                       = [status |-> 200, detail |-> "", user |-> user]
                 /\ \A i \in DOMAIN projects_db :
                       LET project == projects_db[i][2]
                       IN  project.owner_id = user.user_id =>
                              /\ get_project(projects_db, project.id,
                                             authorization).body = project
                              /\ InSeq(project,
                                       list_projects(projects_db,
                                                     authorization).body))

\* The first project is given to its owner after a second one was stored.
C10_Witness ==
    /\ Len(projects_db) = 2
    /\ Len(tokens_db) = 2
    /\ Responded
    /\ resp.op = "get"
    /\ resp.status = 200
    /\ resp.project_id = 1
    /\ resp.body = projects_db[1][2]

(***************************************************************************)
(*                 THE TRANSFORMATION ENGINE: MORE PROPERTIES              *)
(***************************************************************************)

\* data_analyzer.py, load_project_data: the file of the project is read
\* from uploads/, and from python_data/ when uploads/ has no such file.
\* Each place has the file ("ok"), lacks it ("missing") or holds one that
\* read_csv cannot read ("unreadable").  attempts lists the places read.
Places == {"ok", "missing", "unreadable"}

load_project_data(uploads, python_data) ==
    IF uploads = "ok"
    THEN [loaded |-> TRUE, attempts |-> <<"uploads">>]
    ELSE IF uploads = "missing"
    THEN [loaded |-> python_data = "ok", attempts |-> <<"uploads", "python_data">>]
    ELSE [loaded |-> FALSE, attempts |-> <<"uploads">>]

Without(transformations, places) ==
    LET Keep[k \in 0..Len(transformations)] ==
            IF k = 0 THEN <<>>
            ELSE IF k \in places THEN Keep[k - 1]
            ELSE Append(Keep[k - 1], transformations[k])
    IN  Keep[Len(transformations)]

-----------------------------------------------------------------------------
\* One handler applied to one dataframe.

Z == S(<<"z">>)
Empty == S(<<>>)

\* Records whose cells include 0, the empty string, padded strings and
\* missing keys.
StepData ==
    DataPool \cup
    { <<Rec(Empty, Num(0)), Rec(X, Num(1)), Rec(Empty, Num(2)), Rec(X, Num(0))>>,
      <<Rec(X, Bool(FALSE)), Rec(Y, Bool(TRUE)), Rec(X, Bool(TRUE))>>,
      <<Rec(SpaceX, Num(1)), OnlyB(Num(2)), Rec(Y, Num(1)), Rec(SpaceX, Num(3))>>,
      <<Rec(SpaceX, Num(1)), Rec(X, Num(2))>> }

FilterStep(field, operator, value) ==
    Transformation("filter",
        [NoConfig EXCEPT !.field = field, !.operator = operator, !.value = value])

AggregateStep(group_by, aggregations) ==
    Transformation("aggregate",
        [NoConfig EXCEPT !.groupBy = group_by, !.aggregations = aggregations])

\* Steps on columns the frames lack.
OnAbsentColumns ==
    { FilterStep("z", "equals", X),
      FilterStep("z", "greater_than", Num(1)),
      Transformation("select", [NoConfig EXCEPT !.fields = <<"z">>]),
      Transformation("select", [NoConfig EXCEPT !.fields = <<"z", "y">>]),
      Transformation("sort", [NoConfig EXCEPT !.fields = <<"z">>, !.order = "desc"]),
      Transformation("rename", [NoConfig EXCEPT !.mappings = <<<<"z", "c">>>>]),
      Transformation("convert", [NoConfig EXCEPT !.field = "z", !.newType = "text"]),
      Transformation("convert", [NoConfig EXCEPT !.field = "z", !.newType = "boolean"]),
      AggregateStep(<<"z">>, <<Aggregation("z", "sum", "total")>>),
      AggregateStep(<<"z">>, <<Aggregation("y", "count", "")>>) }

EqualityFilters ==
    { FilterStep(field, operator, value) :
        field \in {"a", "b"},
        operator \in {"equals", "not_equals"},
        value \in {X, Empty, Num(0), Num(1), Bool(FALSE)} }

Aggregates ==
    { AggregateStep(<<"a">>, <<Aggregation("b", "sum", "")>>),
      AggregateStep(<<"a">>, <<Aggregation("b", "max", "top")>>),
      AggregateStep(<<"a">>, <<Aggregation("b", "count", "n"), Aggregation("z", "sum", "s")>>),
      AggregateStep(<<"a">>, <<Aggregation("b", "sum", "total"), Aggregation("b", "max", "top")>>),
      AggregateStep(<<"a">>, <<Aggregation("b", "min", "low"), Aggregation("b", "median", "mid")>>) }

StepCatalogue == Catalogue \cup OnAbsentColumns \cup EqualityFilters \cup Aggregates

\* self.transformation_methods[transform_type](df, config) on the frame of
\* one dataset.
ApplyOne ==
    /\ handled.pc = "idle"
    /\ \E data \in StepData, transformation \in StepCatalogue :
          handled' = [pc |-> "returned",
                      df |-> DataFrame(data),
                      type |-> transformation.type,
                      config |-> transformation.config,
                      out |-> ApplyEntry(DataFrame(data), transformation)]
    /\ UNCHANGED <<cliVars, xf, asked, da, srvVars>>

InitStep ==
    /\ run = NotRun
    /\ xf = XfIdle
    /\ handled = NotHandled
    /\ asked = NotAsked
    /\ da = NotStarted
    /\ projects_db = <<>>
    /\ users_db = <<>>
    /\ tokens_db = <<>>
    /\ inflight = {}
    /\ resp = NoResponse

NextStep == ApplyOne

SpecStep == InitStep /\ [][NextStep]_vars

\* The handler of the given type has returned.
Handled(type) ==
    handled.pc = "returned" /\ handled.type = type /\ ~handled.out.raised

Range(seq) == {seq[i] : i \in DOMAIN seq}

\* The columns a step's config names.
NamedColumns(type, config) ==
    CASE type \in {"filter", "convert"} -> {config.field} \ {""}
      [] type \in {"select", "sort"} -> Range(config.fields)
      [] type = "rename" -> {m[1] : m \in Range(config.mappings)}
      [] type = "aggregate" ->
            Range(config.groupBy) \cup
            {agg.field : agg \in Range(config.aggregations)}
      [] OTHER -> {}

NamesOnlyAbsentColumns ==
    /\ handled.pc = "returned"
    /\ NamedColumns(handled.type, handled.config) # {}
    /\ \A c \in NamedColumns(handled.type, handled.config) :
          ~HasCol(handled.df, c)

\* C14: a filter, select, sort, rename, convert or aggregate step whose
\* config names only columns the dataframe lacks returns the dataframe
\* unchanged: the same rows in the same order and the same columns.
C14_AbsentColumnsLeaveFrame ==
    NamesOnlyAbsentColumns =>
        /\ ~handled.out.raised
        /\ handled.out.df = handled.df

C14_Witness ==
    /\ NamesOnlyAbsentColumns
    /\ handled.type = "select"
    /\ Len(handled.df.rows) = 3
    /\ Len(handled.df.cols) = 2

\* The rows of df whose cell in column c equals (wanted) or differs from
\* (~wanted) value, in their order.
RowsWhere(df, c, value, wanted) ==
    SelectSeq(df.rows, LAMBDA row : PyEq(row[ColIdx(df, c)], value) = wanted)

\* C15: a filter step on an existing field with operator 'equals'
\* (respectively 'not_equals') returns exactly the rows whose field value
\* equals (respectively differs from) the configured value, in their
\* original order, for every configured value including 0, false and the
\* empty string.
C15_EqualityFilterIsExact ==
    (/\ Handled("filter")
     /\ handled.config.operator \in {"equals", "not_equals"}
     /\ HasCol(handled.df, handled.config.field)
     /\ ~IsNull(handled.config.value)) =>
        /\ handled.out.df.cols = handled.df.cols
        /\ handled.out.df.rows =
              RowsWhere(handled.df, handled.config.field, handled.config.value,
                        handled.config.operator = "equals")

\* f"{field}_{operation}"
DefaultAlias(field, operation) == field \o "_" \o operation

\* An entry of config.aggregations that names a column of df and one of
\* the five operations.
Supported(df, agg) == HasCol(df, agg.field) /\ agg.operation \in PandasFunctions

\* C16: after an aggregate step with valid groupBy fields, every
\* aggregation entry that names an existing field and a supported
\* operation contributes one output column holding that operation's
\* result per group, named by the entry's alias, or '<field>_<operation>'
\* when no alias is given; also when several entries aggregate the same
\* field with different operations.
C16_EveryEntryGivesItsColumn ==
    (/\ Handled("aggregate")
     /\ ~handled.out.caught
     /\ handled.config.groupBy # <<>>
     /\ \A c \in Range(handled.config.groupBy) : HasCol(handled.df, c)) =>
        \A agg \in Range(handled.config.aggregations) :
            Supported(handled.df, agg) =>
                LET name == IF agg.alias # "" THEN agg.alias
                            ELSE DefaultAlias(agg.field, agg.operation)
                    alone == GroupByAgg(handled.df, handled.config.groupBy,
                                        <<<<agg.field, agg.operation>>>>)
                IN  /\ HasCol(handled.out.df, name)
                    /\ Column(handled.out.df, name) = Column(alone, agg.field)

\* C17: a clean step with trimWhitespace = true and removeNulls = false
\* changes only leading and trailing whitespace of string values: the
\* number of rows is unchanged, non-string columns are unchanged, and every
\* cell that was null before the step is still null after it.
C17_TrimOnlyStripsStrings ==
    (/\ Handled("clean")
     /\ handled.config.trimWhitespace
     /\ ~handled.config.removeNulls) =>
        LET before == handled.df
            after == handled.out.df
        IN  /\ after.cols = before.cols
            /\ Len(after.rows) = Len(before.rows)
            /\ \A r \in DOMAIN before.rows, j \in DOMAIN before.cols :
                  LET cell == before.rows[r][j]
                  IN  IF cell.t = "str"
                      THEN after.rows[r][j] = Str(Strip(cell.s))
                      ELSE after.rows[r][j] = cell

\* C18: a successful apply_transformations reports transformed_count <=
\* original_count: after each step of the pipeline the number of rows is at
\* most the number before it, whatever the kinds and order of the steps.
C18_RowsNeverIncrease ==
    /\ [](/\ (Returned_ /\ xf.result.success) =>
                 xf.result.transformed_count <= xf.result.original_count
          /\ xf.pc = "loop" => Len(xf.df.rows) <= Len(xf.data))
    /\ [][(xf.pc = "loop" /\ xf'.pc = "loop") =>
              Len(xf'.df.rows) <= Len(xf.df.rows)]_vars

C18_Witness ==
    /\ Returned_
    /\ xf.result.success
    /\ Len(xf.transformations) = 2
    /\ xf.skipped = {}
    /\ 0 < xf.result.transformed_count
    /\ xf.result.transformed_count + 1 < xf.result.original_count

\* C19: transformations_applied of a successful result is the number of
\* list entries that were dispatched to a handler; entries with an unknown
\* type are not counted.
C19_AppliedCountsDispatched ==
    (Returned_ /\ xf.result.success) =>
        xf.result.transformations_applied = Len(Known(xf.transformations))

\* C12: apply_transformations never raises, whatever data and
\* transformations are; when it fails it returns success = false, an
\* error, the input records as data, original_count = the number of input
\* records and transformed_count = 0.
C12_NeverRaises ==
    /\ xf.pc # "raised"
    /\ (Returned_ /\ ~xf.result.success) =>
          /\ xf.result.error
          /\ xf.result.data = xf.data
          /\ xf.result.original_count = Len(xf.data)
          /\ xf.result.transformed_count = 0

-----------------------------------------------------------------------------
\* python_scripts/visualization_generator.py

\* The chart was rendered: create_advanced_visualization reached
\* results['success'] = True.
Rendered == run.failedIn = "none"

\* C13: visualization_generator.py exits with status 0 exactly when the
\* chart was rendered and with status 1 otherwise, for configs with
\* chartConfig and for legacy configs routed through create_visualization.
C13_ExitZeroIffRendered ==
    (run.script = "visualization_generator" /\ run.cond.argcOK) =>
        /\ Rendered => run.exit = 0
        /\ ~Rendered => run.exit = 1

(***************************************************************************)
(*                     DataAnalyzer.analyze_question                       *)
(*            attached_assets/pandas-analyzer_1757721245016.py             *)
(***************************************************************************)

\* A question and a column name are strings, written as the sequences of
\* their characters.  self.df is the sequence of its columns, each with a
\* name, a dtype and its cells.
UpperCase == <<"A", "B", "C", "D", "E", "F", "G", "H", "I", "J", "K", "L", "M">> \o
             <<"N", "O", "P", "Q", "R", "S", "T", "U", "V", "W", "X", "Y", "Z">>
LowerCase == <<"a", "b", "c", "d", "e", "f", "g", "h", "i", "j", "k", "l", "m">> \o
             <<"n", "o", "p", "q", "r", "s", "t", "u", "v", "w", "x", "y", "z">>

\* str.lower()
Lower(s) ==
    [i \in DOMAIN s |->
        IF \E k \in DOMAIN UpperCase : UpperCase[k] = s[i]
        THEN LowerCase[CHOOSE k \in DOMAIN UpperCase : UpperCase[k] = s[i]]
        ELSE s[i]]

\* any(pattern in text for pattern in patterns)
AnyIn(patterns, text) == \E p \in patterns : Contains(text, p)

DataColumn(name, dtype, cells) == [name |-> name, dtype |-> dtype, cells |-> cells]

_is_count_question(question) ==
    AnyIn(
        { <<"h", "o", "w", " ", "m", "a", "n", "y">>, <<"c", "o", "u", "n", "t", " ", "o", "f">>, <<"n", "u", "m", "b", "e", "r", " ", "o", "f">>, <<"t", "o", "t", "a", "l">> },
        question)

_is_location_question(question) ==
    AnyIn(
        { <<"w", "h", "e", "r", "e">>, <<"l", "o", "c", "a", "t", "i", "o", "n">>, <<"c", "i", "t", "y">>,
          <<"s", "t", "a", "t", "e">>, <<"c", "o", "u", "n", "t", "r", "y">>, <<"r", "e", "g", "i", "o", "n">> },
        question)

_is_demographic_question(question) ==
    AnyIn(
        { <<"a", "g", "e">>, <<"g", "e", "n", "d", "e", "r">>, <<"a", "u", "d", "i", "e", "n", "c", "e">>,
          <<"s", "e", "g", "m", "e", "n", "t">>, <<"d", "e", "m", "o", "g", "r", "a", "p", "h", "i", "c">> },
        question)

_is_performance_question(question) ==
    AnyIn(
        { <<"c", "o", "n", "v", "e", "r", "s", "i", "o", "n">>, <<"r", "o", "i">>, <<"c", "o", "s", "t">>,
          <<"r", "e", "v", "e", "n", "u", "e">>, <<"r", "a", "t", "e">>, <<"p", "e", "r", "f", "o", "r", "m", "a", "n", "c", "e">> },
        question)

_is_top_question(question) ==
    AnyIn(
        { <<"t", "o", "p">>, <<"b", "e", "s", "t">>, <<"h", "i", "g", "h", "e", "s", "t">>,
          <<"m", "o", "s", "t">>, <<"p", "o", "p", "u", "l", "a", "r">>, <<"s", "u", "c", "c", "e", "s", "s", "f", "u", "l">> },
        question)

\* What analyze_question hands back: the dictionary of a handler, or the
\* exception that left it.
AnswerKeys == {"answer", "details", "analysis_type"}

Answer(handler, analysis_type) ==
    [raised |-> FALSE, handler |-> handler, keys |-> AnswerKeys,
     analysis_type |-> analysis_type]

Raised(handler) ==
    [raised |-> TRUE, handler |-> handler, keys |-> {}, analysis_type |-> ""]

\* entity_patterns, in the order of the dict.
EntityPatterns ==
    << <<<<"c", "u", "s", "t", "o", "m", "e", "r">>,
          { <<"c", "u", "s", "t", "o", "m", "e", "r">>, <<"c", "l", "i", "e", "n", "t">>, <<"u", "s", "e", "r">> }>>,
       <<<<"c", "a", "m", "p", "a", "i", "g", "n">>,
          { <<"c", "a", "m", "p", "a", "i", "g", "n">>, <<"a", "d">>, <<"m", "a", "r", "k", "e", "t", "i", "n", "g">> }>>,
       <<<<"c", "o", "m", "p", "a", "n", "y">>,
          { <<"c", "o", "m", "p", "a", "n", "y">>, <<"b", "u", "s", "i", "n", "e", "s", "s">>, <<"o", "r", "g", "a", "n", "i", "z", "a", "t", "i", "o", "n">> }>>,
       <<<<"p", "r", "o", "d", "u", "c", "t">>,
          { <<"p", "r", "o", "d", "u", "c", "t">>, <<"i", "t", "e", "m">>, <<"s", "e", "r", "v", "i", "c", "e">> }>> >>

_extract_entities(question) ==
    LET found == SelectSeq(EntityPatterns, LAMBDA e : AnyIn(e[2], question))
    IN  [k \in DOMAIN found |-> found[k][1]]

_find_matching_columns(df, entity) ==
    SelectSeq(df, LAMBDA col : Contains(Lower(col.name), Lower(entity)))

\* The columns with one of the keywords in their lower-cased name.
ColumnsNamed(df, keywords) ==
    SelectSeq(df, LAMBDA col : AnyIn(keywords, Lower(col.name)))

_find_location_columns(df) ==
    ColumnsNamed(df,
        { <<"l", "o", "c", "a", "t", "i", "o", "n">>, <<"c", "i", "t", "y">>, <<"s", "t", "a", "t", "e">>,
          <<"c", "o", "u", "n", "t", "r", "y">>, <<"r", "e", "g", "i", "o", "n">>, <<"a", "d", "d", "r", "e", "s", "s">> })

_find_demographic_columns(df) ==
    ColumnsNamed(df,
        { <<"a", "g", "e">>, <<"g", "e", "n", "d", "e", "r">>, <<"a", "u", "d", "i", "e", "n", "c", "e">>,
          <<"s", "e", "g", "m", "e", "n", "t">>, <<"d", "e", "m", "o", "g", "r", "a", "p", "h", "i", "c">>, <<"t", "a", "r", "g", "e", "t">> })

_find_numeric_columns(df) ==
    SelectSeq(df, LAMBDA col : col.dtype \in {"int64", "float64"})

\* The first column with one of the keywords in its name, <<>> for None.
FirstNamed(df, keywords) ==
    LET cols == ColumnsNamed(df, keywords)
    IN  IF cols = <<>> THEN <<>> ELSE <<Head(cols)>>

_find_campaign_column(df) ==
    FirstNamed(df, { <<"c", "a", "m", "p", "a", "i", "g", "n">>, <<"a", "d">>, <<"m", "a", "r", "k", "e", "t", "i", "n", "g">> })

_find_company_column(df) ==
    FirstNamed(df, { <<"c", "o", "m", "p", "a", "n", "y">>, <<"b", "u", "s", "i", "n", "e", "s", "s">>, <<"o", "r", "g", "a", "n", "i", "z", "a", "t", "i", "o", "n">> })

_find_metric_column(df) ==
    FirstNamed(_find_numeric_columns(df),
        { <<"r", "o", "i">>, <<"c", "o", "n", "v", "e", "r", "s", "i", "o", "n">>, <<"r", "a", "t", "e">>,
          <<"r", "e", "v", "e", "n", "u", "e">>, <<"c", "o", "s", "t">>, <<"s", "c", "o", "r", "e">> })

_handle_count_question(df, question) ==
    LET entities == _extract_entities(question)
        results == SelectSeq(df, LAMBDA col :
                      \E k \in DOMAIN entities :
                          Contains(Lower(col.name), Lower(entities[k])))
    IN  IF entities = <<>> THEN Answer("count", "count")
        ELSE IF results # <<>> THEN Answer("count", "count_by_entity")
        ELSE Answer("count", "count")

\* The keys of df[col].value_counts(): the values of the column, nulls
\* left out.  The model's columns hold fewer than five distinct values, so
\* the five most frequent are all of them.
ValueCountsKeys(col) ==
    {col.cells[i] : i \in {j \in DOMAIN col.cells : ~IsNull(col.cells[j])}}

\* ', '.join(top_locs) raises TypeError on a key that is no string.
_handle_location_question(df, question) ==
    LET location_cols == _find_location_columns(df)
    IN  IF location_cols = <<>> THEN Answer("location", "location")
        ELSE IF \E k \in DOMAIN location_cols :
                    \E key \in ValueCountsKeys(location_cols[k]) : key.t # "str"
        THEN Raised("location")
        ELSE Answer("location", "location")

\* The keys are joined through map(str, ...).
_handle_demographic_question(df, question) ==
    LET demo_cols == _find_demographic_columns(df)
    IN  IF demo_cols = <<>> THEN Answer("demographic", "demographic")
        ELSE Answer("demographic", "demographic")

_handle_performance_question(df, question) ==
    LET numeric_cols == _find_numeric_columns(df)
        performance_cols ==
            ColumnsNamed(numeric_cols,
                { <<"c", "o", "n", "v", "e", "r", "s", "i", "o", "n">>, <<"r", "o", "i">>, <<"c", "o", "s", "t">>,
                  <<"r", "e", "v", "e", "n", "u", "e">>, <<"r", "a", "t", "e">> })
    IN  IF performance_cols = <<>> THEN Answer("performance", "performance")
        ELSE Answer("performance", "performance")

_handle_top_question(df, question) ==
    LET groupby_col ==
            IF Contains(question, <<"c", "a", "m", "p", "a", "i", "g", "n">>)
            THEN _find_campaign_column(df)
            ELSE IF Contains(question, <<"c", "o", "m", "p", "a", "n", "y">>)
            THEN _find_company_column(df)
            ELSE <<>>
        metric_col ==
            IF _find_metric_column(df) # <<>> THEN _find_metric_column(df)
            ELSE IF _find_numeric_columns(df) # <<>>
            THEN <<Head(_find_numeric_columns(df))>>
            ELSE <<>>
    IN  IF groupby_col = <<>> THEN Answer("top", "top")
        ELSE IF metric_col = <<>> THEN Answer("top", "top")
        ELSE Answer("top", "top")

_generate_general_summary(df, question) == Answer("summary", "summary")

analyze_question(df, question) ==
    LET question_lower == Lower(question)
    IN  IF _is_count_question(question_lower)
        THEN _handle_count_question(df, question_lower)
        ELSE IF _is_location_question(question_lower)
        THEN _handle_location_question(df, question_lower)
        ELSE IF _is_demographic_question(question_lower)
        THEN _handle_demographic_question(df, question_lower)
        ELSE IF _is_performance_question(question_lower)
        THEN _handle_performance_question(df, question_lower)
        ELSE IF _is_top_question(question_lower)
        THEN _handle_top_question(df, question_lower)
        ELSE _generate_general_summary(df, question)

\* ---- The inputs of the model.

Questions ==
    { <<"H", "o", "w", " ", "m", "a", "n", "y", " ", "r", "o", "w", "s">>, <<"t", "o", "t", "a", "l", " ", "c", "o", "s", "t", " ", "b", "y", " ", "c", "i", "t", "y">>, <<"c", "o", "u", "n", "t", " ", "o", "f", " ", "a", "d">>,
      <<"W", "h", "e", "r", "e", " ", "a", "r", "e", " ", "t", "h", "e", "y">>, <<"c", "i", "t", "y", " ", "a", "n", "d", " ", "a", "g", "e">>, <<"R", "e", "g", "i", "o", "n">>,
      <<"a", "v", "e", "r", "a", "g", "e">>, <<"g", "e", "n", "d", "e", "r">>, <<"r", "o", "i">>,
      <<"t", "o", "p", " ", "r", "o", "i">>, <<"b", "e", "s", "t", " ", "r", "a", "t", "e">>, <<"t", "o", "p", " ", "c", "a", "m", "p", "a", "i", "g", "n">>,
      <<"B", "e", "s", "t", " ", "c", "o", "m", "p", "a", "n", "y">>, <<"m", "o", "s", "t">>, <<"h", "e", "l", "l", "o">>,
      <<>> }

Datasets ==
    { <<DataColumn(<<"c", "i", "t", "y">>, "object", <<X, Y, X>>),
        DataColumn(<<"c", "o", "s", "t">>, "int64", <<Num(1), Num(2), Num(0)>>)>>,
      <<DataColumn(<<"c", "i", "t", "y", "_", "i", "d">>, "int64", <<Num(1), Num(2)>>),
        DataColumn(<<"a", "g", "e">>, "int64", <<Num(2), Num(2)>>)>>,
      <<DataColumn(<<"C", "a", "m", "p", "a", "i", "g", "n">>, "object", <<X, Y>>),
        DataColumn(<<"R", "O", "I">>, "float64", <<Num(1), Null>>)>>,
      <<DataColumn(<<"c", "o", "m", "p", "a", "n", "y">>, "object", <<X, X>>),
        DataColumn(<<"s", "c", "o", "r", "e">>, "int64", <<Num(1), Num(2)>>)>>,
      <<DataColumn(<<"n", "a", "m", "e">>, "object", <<X, Y>>)>>,
      <<DataColumn(<<"R", "e", "g", "i", "o", "n">>, "object", <<X, Null, Y>>),
        DataColumn(<<"g", "e", "n", "d", "e", "r">>, "object", <<Y, Y, X>>)>>,
      <<DataColumn(<<"s", "t", "a", "t", "e">>, "bool", <<Bool(TRUE), Bool(FALSE)>>),
        DataColumn(<<"u", "s", "e", "r">>, "object", <<X, Y>>)>>,
      <<DataColumn(<<"a", "d", "_", "c", "o", "s", "t">>, "int64", <<Num(1), Num(2)>>)>>,
      <<DataColumn(<<"a", "d", "d", "r", "e", "s", "s">>, "object", <<>>),
        DataColumn(<<"c", "o", "m", "p", "a", "n", "y">>, "object", <<>>)>> }

\* analyzer.analyze_question(question) on a loaded dataset.
Ask ==
    /\ asked.pc = "idle"
    /\ \E df \in Datasets, question \in Questions :
          asked' = [pc |-> "returned", df |-> df, question |-> question,
                    out |-> analyze_question(df, question)]
    /\ UNCHANGED <<cliVars, xf, handled, da, srvVars>>

InitAsk ==
    /\ run = NotRun
    /\ xf = XfIdle
    /\ handled = NotHandled
    /\ asked = NotAsked
    /\ da = NotStarted
    /\ projects_db = <<>>
    /\ users_db = <<>>
    /\ tokens_db = <<>>
    /\ inflight = {}
    /\ resp = NoResponse

NextAsk == Ask

SpecAsk == InitAsk /\ [][NextAsk]_vars

\* The handler the fixed priority gives the question.
ByPriority(question) ==
    CASE _is_count_question(question) -> "count"
      [] ~_is_count_question(question) /\ _is_location_question(question) -> "location"
      [] OTHER ->
            IF _is_demographic_question(question) THEN "demographic"
            ELSE IF _is_performance_question(question) THEN "performance"
            ELSE IF _is_top_question(question) THEN "top"
            ELSE "summary"

\* C20: analyze_question routes every question to exactly one handler by
\* the priority count > location > demographic > performance > top >
\* general summary on the lower-cased question, and for every question and
\* every loaded dataset it returns a dictionary with the keys answer,
\* details and analysis_type without raising.
C20_RoutedAndAnswered ==
    asked.pc = "returned" =>
        /\ asked.out.handler = ByPriority(Lower(asked.question))
        /\ ~asked.out.raised
        /\ asked.out.keys = AnswerKeys

(***************************************************************************)
(*                    python_scripts/data_analyzer.py: main                *)
(***************************************************************************)

\* The input file and the config file are JSON objects: dicts, as the
\* (key, value) pairs in insertion order.
InputFiles ==
    { <<>>,
      <<<<"projectId", "">>>>,
      <<<<"projectId", "p1">>>>,
      <<<<"name", "p1">>, <<"projectId", "p2">>>> }

ConfigFiles ==
    { <<>>, <<<<"targetVariable", "ROI">>>> } \cup
    { <<<<"analysisType", t>>>> :
        t \in {"anova", "ancova", "regression", "machine_learning",
               "comprehensive", "ANOVA", "clustering", ""} }

\* input_data.get('projectId'): None for a missing key, read as "" here;
\* both are false for 'if not project_id'.
ProjectIdOf(input_data) ==
    IF DictHas(input_data, "projectId") THEN DictGet(input_data, "projectId")
    ELSE ""

\* config.get('analysisType', 'comprehensive')
AnalysisTypeOf(config) ==
    IF DictHas(config, "analysisType") THEN DictGet(config, "analysisType")
    ELSE "comprehensive"

\* A chain that has no branch of its own for 'ancova'.
AnalysisWithoutAncova(analysis_type) ==
    CASE analysis_type = "anova" -> "run_anova"
      [] analysis_type = "regression" -> "run_regression"
      [] analysis_type = "machine_learning" -> "run_ml_analysis"
      [] OTHER -> "Comprehensive"

\* The if/elif chain of main: the function it calls, "Comprehensive" for
\* the summary computed in the else branch.
AnalysisFor(analysis_type) ==
    CASE analysis_type = "anova" -> "run_anova"
      [] analysis_type = "ancova" -> "run_anova"
      [] analysis_type = "regression" -> "run_regression"
      [] analysis_type = "machine_learning" -> "run_ml_analysis"
      [] OTHER -> "Comprehensive"

\* The output file main writes before it ends.
Output(success) == [success |-> success]

\* main up to the check of the project id: both files are read, then
\* 'if not project_id: raise ValueError', which main's handler turns into
\* the error file and exit status 1.
ReadInputs ==
    /\ da.pc = "idle"
    /\ \E input_data \in InputFiles, config \in ConfigFiles,
          uploads \in Places, python_data \in Places :
          LET project_id == ProjectIdOf(input_data)
          IN  da' = [pc |-> IF project_id = "" THEN "exited" ELSE "loading",
                     input_data |-> input_data, config |-> config,
                     uploads |-> uploads, python_data |-> python_data,
                     calls |-> <<>>,
                     exit |-> IF project_id = "" THEN 1 ELSE 0,
                     output |-> Output(FALSE)]
    /\ UNCHANGED <<cliVars, xf, handled, asked, srvVars>>

\* df = load_project_data(project_id); its exception goes to main's
\* handler.
LoadProjectData ==
    /\ da.pc = "loading"
    /\ LET loaded == load_project_data(da.uploads, da.python_data).loaded
       IN  da' = [da EXCEPT !.pc = IF loaded THEN "loaded" ELSE "exited",
                            !.calls = Append(@, "load_project_data"),
                            !.exit = IF loaded THEN 0 ELSE 1]
    /\ UNCHANGED <<cliVars, xf, handled, asked, srvVars>>

\* The selected analysis and the output file.  The three run_ functions
\* return {'error': ...} on their own failure and main goes on; the
\* summary of the else branch raises into main's handler.
RunAnalysis ==
    /\ da.pc = "loaded"
    /\ \E failed \in BOOLEAN :
          LET analysis == AnalysisFor(AnalysisTypeOf(da.config))
              raised == failed /\ analysis = "Comprehensive"
          IN  da' = [da EXCEPT !.pc = "exited",
                               !.calls = Append(@, analysis),
                               !.exit = IF raised THEN 1 ELSE 0,
                               !.output = Output(~raised)]
    /\ UNCHANGED <<cliVars, xf, handled, asked, srvVars>>

InitAnalysis ==
    /\ run = NotRun
    /\ xf = XfIdle
    /\ handled = NotHandled
    /\ asked = NotAsked
    /\ da = NotStarted
    /\ projects_db = <<>>
    /\ users_db = <<>>
    /\ tokens_db = <<>>
    /\ inflight = {}
    /\ resp = NoResponse

NextAnalysis ==
    \/ ReadInputs
    \/ LoadProjectData
    \/ RunAnalysis

SpecAnalysis == InitAnalysis /\ [][NextAnalysis]_vars

Analyses == {"run_anova", "run_regression", "run_ml_analysis", "Comprehensive"}

\* The calls of the run so far that are analyses.
AnalysesRun == SelectSeq(da.calls, LAMBDA call : call \in Analyses)

HasProjectId ==
    \E k \in DOMAIN da.input_data :
        da.input_data[k][1] = "projectId" /\ da.input_data[k][2] # ""

ConfiguredType(t) ==
    \E k \in DOMAIN da.config : da.config[k] = <<"analysisType", t>>

\* C21: data_analyzer.py selects exactly one analysis from
\* config.analysisType after the project data is loaded: 'anova' and
\* 'ancova' run run_anova, 'regression' runs run_regression,
\* 'machine_learning' runs run_ml_analysis, any other or missing value
\* gives the 'Comprehensive' summary; a missing projectId fails the run
\* before any data is loaded or analysed.
C21_OneAnalysisByType ==
    da.pc # "idle" =>
        /\ Len(AnalysesRun) <= 1
        /\ AnalysesRun # <<>> =>
              /\ da.calls = <<"load_project_data">> \o AnalysesRun
              /\ AnalysesRun[1] =
                    IF ConfiguredType("anova") \/ ConfiguredType("ancova")
                    THEN "run_anova"
                    ELSE IF ConfiguredType("regression") THEN "run_regression"
                    ELSE IF ConfiguredType("machine_learning") THEN "run_ml_analysis"
                    ELSE "Comprehensive"
        /\ (da.pc = "exited" /\ da.exit = 0) => Len(AnalysesRun) = 1
        /\ ~HasProjectId =>
              /\ da.pc = "exited"
              /\ da.calls = <<>>
              /\ da.exit = 1
              /\ ~da.output.success

C21_Witness ==
    /\ da.pc = "exited"
    /\ ConfiguredType("ancova")
    /\ da.uploads = "missing"
    /\ da.calls = <<"load_project_data", "run_anova">>
    /\ da.exit = 0

(***************************************************************************)
(*               server/fastapi-backend.py: concurrent uploads             *)
(***************************************************************************)

\* upload_project is a coroutine: it runs from the request to "await
\* file.read()" without a break, is suspended there, and runs from there
\* to its response without a break.  Any number of requests may be
\* suspended at once; inflight holds them, each with the user that
\* get_current_user gave it.

UploadHeaders ==
    {NoHeader} \cup { Header(<<BearerPrefix>> \o token) : token \in Quotable }

UploadForms ==
    { Form(File(".csv", TRUE,
                Frame(<<"id">>, <<"int64">>, << <<Num(1)>>, <<Num(2)>> >>)),
           "sales", <<>>),
      Form(File(".csv", FALSE, EmptyFrame), "broken", <<>>) }

\* A request in flight.  rid tells apart the requests that are suspended
\* at the same time.
Request(rid, form, authorization, user) ==
    [rid |-> rid, form |-> form, authorization |-> authorization, user |-> user]

FreeRid == CHOOSE n \in 1..(Cardinality(inflight) + 1) :
               \A q \in inflight : q.rid # n

\* The response a request gets.
Reply(rid, response) == [status |-> response.status, rid |-> rid, response |-> response]

\* upload_project up to "content = await file.read()": the caller is
\* looked up; a request without valid credentials ends here with 401.
UploadReceived ==
    /\ Len(projects_db) + Cardinality(inflight) < MaxProjects
    /\ \E authorization \in UploadHeaders, form \in UploadForms :
          LET auth == get_current_user(tokens_db, authorization)
          IN  IF auth.status # 200
              THEN /\ resp' = Reply(FreeRid,
                                    HTTPException("upload", authorization, 0,
                                                  auth.status, auth.detail))
                   /\ inflight' = inflight
              ELSE /\ inflight' = inflight \cup
                        {Request(FreeRid, form, authorization, auth.user)}
                   /\ resp' = resp
    /\ UNCHANGED <<cliVars, xfVars, projects_db, users_db, tokens_db>>

\* upload_project from the file read to the response: the file is parsed
\* (400 if it cannot be), the id is drawn and the project is stored.
UploadResumed ==
    /\ \E request \in inflight :
          LET df == request.form.file.frame
              project_id == NewProjectId(projects_db)
          IN  /\ inflight' = inflight \ {request}
              /\ IF ~ParsesFile(request.form.file)
                 THEN /\ resp' = Reply(request.rid,
                                       HTTPException("upload", request.authorization,
                                                     0, 400, "File processing error"))
                      /\ projects_db' = projects_db
                 ELSE /\ projects_db' =
                            DictSet(projects_db, project_id,
                                    Project(project_id, request.form.name, df,
                                            request.form.questions,
                                            Len(projects_db), request.user))
                      /\ resp' = Reply(request.rid,
                                       Response("upload", request.authorization,
                                                project_id, 200, "",
                                                UploadBody(project_id, df)))
    /\ UNCHANGED <<cliVars, xfVars, users_db, tokens_db>>

InitUploads ==
    /\ run = NotRun
    /\ xf = XfIdle
    /\ handled = NotHandled
    /\ asked = NotAsked
    /\ da = NotStarted
    /\ projects_db = <<>>
    /\ users_db = <<>>
    /\ tokens_db = <<>>
    /\ inflight = {}
    /\ resp = NoResponse

NextUploads ==
    \/ IssueToken
    \/ UploadReceived
    \/ UploadResumed

SpecUploads == InitUploads /\ [][NextUploads]_vars

\* The token of the request stands for this user.
RequesterIs(request, user_id) ==
    \E i \in DOMAIN tokens_db :
        /\ tokens_db[i][1] = ReplaceBearer(request.authorization.text)
        /\ tokens_db[i][2].user_id = user_id

\* C22: under any interleaving of concurrent upload_project requests, each
\* request that completes successfully adds exactly one project to
\* projects_db under an id not used before, owned by the requesting user;
\* no project stored by another request is overwritten or lost; a request
\* that fails (authentication or file processing) adds nothing.
C22_ConcurrentUploadsKeepProjects ==
    /\ [](/\ Cardinality(Keys(projects_db)) = Len(projects_db)
          /\ \A i \in DOMAIN projects_db : projects_db[i][2].id = projects_db[i][1])
    /\ [][LET completed == inflight \ inflight'
              succeeded == completed # {} /\ resp'.status = 200
              stored == Len(projects_db')
          IN  /\ stored >= Len(projects_db)
              /\ \A i \in DOMAIN projects_db : projects_db'[i] = projects_db[i]
              /\ stored = Len(projects_db) + (IF succeeded THEN 1 ELSE 0)
              /\ succeeded =>
                    /\ projects_db'[stored][1] \notin Keys(projects_db)
                    /\ projects_db'[stored][1] = resp'.response.project_id
                    /\ \A request \in completed :
                          RequesterIs(request, projects_db'[stored][2].owner_id)
              /\ (resp' # resp /\ resp'.status # 200) => projects_db' = projects_db
         ]_vars

\* The second of two suspended requests has stored its project while the
\* first, of another user, is still suspended.
C22_Witness ==
    /\ Len(projects_db) = 1
    /\ resp.status = 200
    /\ resp.rid = 2
    /\ \E request \in inflight :
          /\ request.rid = 1
          /\ ParsesFile(request.form.file)
          /\ request.user.user_id # projects_db[1][2].owner_id

=============================================================================
